---- MODULE Spec2Model ----
(***************************************************************************)
(* Cramberry (Rust runtime): the compact tag codec, the Writer/Reader      *)
(* primitives used by it, and the polymorphic type Registry.               *)
(*                                                                         *)
(* Machine integers.  TLC's integers stop at 2^31-1, so a u32 is kept as   *)
(* a little-endian sequence of two 16-bit limbs <<lo, hi>> (value          *)
(* hi * 65536 + lo).  Every operation of the code on a u32 (compare, +1,   *)
(* >> 7, << shift, |, as u8) is done on the limbs at the full 32-bit       *)
(* width, so wrap-around and truncation are those of the code.             *)
(* A byte (u8) is a number in 0..255; a buffer is a sequence of bytes.     *)
(***************************************************************************)
EXTENDS Integers, Sequences, FiniteSets, TLC

VARIABLES
    by_id,          \* RegistryInner.by_id: TypeId -> TypeRegistration
    by_name,        \* RegistryInner.by_name: name -> TypeId
    next_type_id,   \* RegistryInner.next_type_id
    poisoned,       \* the RwLock is poisoned (a writer panicked holding it)
    rog,            \* per thread: where its call on the Registry stands
    op_count,       \* number of Registry calls started so far
    auto_assigned,  \* history: the IDs taken from next_type_id so far
    rog_returns,    \* history: <<name, ID>> of every register_or_get return
    writer,         \* Writer.buffer of the caller's writer
    reader,         \* Reader: [buffer, pos]
    last            \* the last completed call: its arguments and its result

vars == <<by_id, by_name, next_type_id, poisoned, rog, op_count, auto_assigned, rog_returns,
          writer, reader, last>>

registry_vars == <<by_id, by_name, next_type_id, poisoned, rog, op_count, auto_assigned,
                   rog_returns>>

(***************************************************************************)
(* Bounds of the model.                                                    *)
(***************************************************************************)
\* Longest run of bytes put after the first byte of a crafted tag input.
MaxTrail == 5
\* Registry calls made in one behaviour.
MaxOps == 2
\* Threads that call register_or_get.
NumThreads == 2
\* Length of the long string of the sample values (its length varint takes 2 bytes).
LongLen == 130

(***************************************************************************)
(* Bytes.                                                                  *)
(***************************************************************************)
Byte == 0..255

RECURSIVE BitOr(_, _)
\* a | b on non-negative integers.
BitOr(a, b) ==
    IF a = 0 THEN b
    ELSE IF b = 0 THEN a
    ELSE (IF a % 2 = 1 \/ b % 2 = 1 THEN 1 ELSE 0) + 2 * BitOr(a \div 2, b \div 2)

RECURSIVE Pow2(_)
Pow2(k) == IF k = 0 THEN 1 ELSE 2 * Pow2(k - 1)

SetMax(S) == CHOOSE x \in S : \A y \in S : y <= x

(***************************************************************************)
(* u32 as limbs.                                                           *)
(***************************************************************************)
LimbBase == Pow2(16)

\* The u32 hi * 65536 + lo.
U32(hi, lo) == <<lo, hi>>

\* The u32 of a small natural (n < 2^31).
U32Of(n) == <<n % LimbBase, n \div LimbBase>>

U32_ZERO == U32(0, 0)
U32_MAX == U32(65535, 65535)

WordIsZero(v) == \A i \in 1..Len(v) : v[i] = 0

\* a >= b, a > b (same width).
WordGe(a, b) ==
    LET diff == {i \in 1..Len(a) : a[i] # b[i]}
    IN  diff = {} \/ a[SetMax(diff)] > b[SetMax(diff)]

WordGt(a, b) == a # b /\ WordGe(a, b)

\* v + 1 overflows the width.
WordIsMax(v) == \A i \in 1..Len(v) : v[i] = LimbBase - 1

\* v + 1, wrapping at the width (wrapping_add).
WordInc(v) ==
    IF WordIsMax(v) THEN [i \in 1..Len(v) |-> 0]
    ELSE LET k == CHOOSE j \in 1..Len(v) :
                      v[j] # LimbBase - 1 /\ \A i \in 1..(j - 1) : v[i] = LimbBase - 1
         IN  [i \in 1..Len(v) |-> IF i < k THEN 0 ELSE IF i = k THEN v[i] + 1 ELSE v[i]]

\* v - 1 for v > 0.
WordDec(v) ==
    LET k == CHOOSE j \in 1..Len(v) : v[j] # 0 /\ \A i \in 1..(j - 1) : v[i] = 0
    IN  [i \in 1..Len(v) |-> IF i < k THEN LimbBase - 1 ELSE IF i = k THEN v[i] - 1 ELSE v[i]]

\* v as u8: the low 8 bits.
AsU8(v) == v[1] % 256

\* v >> k for 0 < k < 16.
WordShr(v, k) ==
    [i \in 1..Len(v) |->
        (v[i] \div Pow2(k))
        + (IF i < Len(v) THEN (v[i + 1] % Pow2(k)) * Pow2(16 - k) ELSE 0)]

\* (g as uN) << shift for a byte g, truncated to n limbs (bits shifted past
\* the width are dropped, as << on a Rust integer drops them).
WordShlByte(g, shift, n) ==
    [i \in 1..n |->
        LET base == 16 * (i - 1)
        IN  IF shift >= base + 16 THEN 0
            ELSE IF shift >= base THEN (g * Pow2(shift - base)) % LimbBase
            ELSE IF base - shift >= 8 THEN 0
            ELSE g \div Pow2(base - shift)]

\* a | b, limb by limb.
WordOr(a, b) == [i \in 1..Len(a) |-> BitOr(a[i], b[i])]

\* The usize of a u32 that fits a small buffer length, for `as usize`.
WordFitsSmall(v) == \A i \in 2..Len(v) : v[i] = 0

\* a + n for a small natural n < 65536, wrapping at the width.
WordAddSmall(a, n) ==
    LET RECURSIVE Carry(_)
        \* the carry into limb i
        Carry(i) == IF i = 1 THEN n ELSE (a[i - 1] + Carry(i - 1)) \div LimbBase
    IN  [i \in 1..Len(a) |-> (a[i] + Carry(i)) % LimbBase]

\* a ^ b, a & b on non-negative integers, and limb by limb.
RECURSIVE BitXor(_, _)
BitXor(a, b) ==
    IF a = 0 THEN b
    ELSE IF b = 0 THEN a
    ELSE (IF (a % 2) # (b % 2) THEN 1 ELSE 0) + 2 * BitXor(a \div 2, b \div 2)

RECURSIVE BitAnd(_, _)
BitAnd(a, b) ==
    IF a = 0 \/ b = 0 THEN 0
    ELSE (IF a % 2 = 1 /\ b % 2 = 1 THEN 1 ELSE 0) + 2 * BitAnd(a \div 2, b \div 2)

WordXor(a, b) == [i \in 1..Len(a) |-> BitXor(a[i], b[i])]

\* v << 1, truncated to the width.
WordShl1(v) ==
    [i \in 1..Len(v) |->
        ((v[i] * 2) % LimbBase) + (IF i > 1 THEN v[i - 1] \div (LimbBase \div 2) ELSE 0)]

\* The top (sign) bit of v.
WordTopBit(v) == v[Len(v)] \div (LimbBase \div 2)

WordAllOnes(n) == [i \in 1..n |-> LimbBase - 1]
WordZero(n) == [i \in 1..n |-> 0]

\* usize (64 bit): four limbs.
Usize(n) == <<n % LimbBase, n \div LimbBase, 0, 0>>

\* (v: u32) as usize.
U32AsUsize(v) == <<v[1], v[2], 0, 0>>

(***************************************************************************)
(* error.rs: the error kinds, and Result values.                           *)
(***************************************************************************)
NoError == [kind |-> "none"]
BufferUnderflow(needed, available) ==
    [kind |-> "BufferUnderflow", needed |-> needed, available |-> available]
VarintOverflow == [kind |-> "VarintOverflow"]
InvalidWireType(b) == [kind |-> "InvalidWireType", byte |-> b]
UnknownTypeId(id) == [kind |-> "UnknownTypeId", type_id |-> id]
TypeNotRegistered(name) == [kind |-> "TypeNotRegistered", name |-> name]
InvalidUtf8 == [kind |-> "InvalidUtf8"]
Custom(msg) == [kind |-> "Custom", msg |-> msg]

UnexpectedEof == [kind |-> "UnexpectedEof"]
\* Error::Io(e), e a std::io::Error of the given ErrorKind.
Io(error_kind) == [kind |-> "Io", error_kind |-> error_kind]

\* Ok(val) / Err(err) of a Reader call, with the position the call leaves.
Ok(val, pos) == [ok |-> TRUE, val |-> val, err |-> NoError, pos |-> pos]
Err(err, pos) == [ok |-> FALSE, val |-> <<>>, err |-> err, pos |-> pos]

\* `res?` followed by the rest of the function, K: an Err is returned as it is.
Try(res, K(_)) == IF res.ok THEN K(res) ELSE res

(***************************************************************************)
(* types.rs: wire types and the compact tag codec.                         *)
(***************************************************************************)
Varint == 0
Fixed64 == 1
Bytes == 2
Fixed32 == 3
SVarint == 4

WireType == {Varint, Fixed64, Bytes, Fixed32, SVarint}

None == [some |-> FALSE]
Some(v) == [some |-> TRUE, val |-> v]

\* WireType::from_u8 taking the reserved value 5 for a wire type: a mutation.
from_u8_Accepts5(value) == IF value \in 0..5 THEN Some(value) ELSE None

\* WireType::from_u8
from_u8(value) == IF value \in 0..4 THEN Some(value) ELSE None

END_MARKER == 0
TAG_EXTENDED_BIT == 1
TAG_WIRE_TYPE_SHIFT == 1
TAG_FIELD_NUM_SHIFT == 4
MAX_COMPACT_FIELD_NUM == 15

TAG_WIRE_TYPE_MASK == 14

\* (tag & TAG_WIRE_TYPE_MASK) >> TAG_WIRE_TYPE_SHIFT
TagWireTypeBits(tag) == BitAnd(tag, TAG_WIRE_TYPE_MASK) \div Pow2(TAG_WIRE_TYPE_SHIFT)

\* x << k on a u8: bits shifted out are dropped.
U8Shl(x, k) == (x * Pow2(k)) % 256

\* The varint loop of encode_compact: while num >= 0x80 { push; num >>= 7 } push.
RECURSIVE encode_compact_loop(_, _)
encode_compact_loop(result, num) ==
    IF WordGe(num, U32Of(128))
    THEN encode_compact_loop(Append(result, BitOr(AsU8(num) % 128, 128)), WordShr(num, 7))
    ELSE Append(result, AsU8(num))

\* FieldTag::encode_compact, with compact form for field_number <= 16: a mutation.
encode_compact_OffByOne(field_number, wire_type) ==
    IF WordIsZero(field_number) THEN <<>>
    ELSE IF ~WordGt(field_number, U32Of(MAX_COMPACT_FIELD_NUM + 1))
    THEN <<BitOr(U8Shl(AsU8(field_number), TAG_FIELD_NUM_SHIFT),
                 U8Shl(wire_type, TAG_WIRE_TYPE_SHIFT))>>
    ELSE encode_compact_loop(
             <<BitOr(U8Shl(wire_type, TAG_WIRE_TYPE_SHIFT), TAG_EXTENDED_BIT)>>,
             field_number)

\* FieldTag::encode_compact
encode_compact(field_number, wire_type) ==
    IF WordIsZero(field_number) THEN <<>>
    ELSE IF ~WordGt(field_number, U32Of(MAX_COMPACT_FIELD_NUM))
    THEN <<BitOr(U8Shl(AsU8(field_number), TAG_FIELD_NUM_SHIFT),
                 U8Shl(wire_type, TAG_WIRE_TYPE_SHIFT))>>
    ELSE encode_compact_loop(
             <<BitOr(U8Shl(wire_type, TAG_WIRE_TYPE_SHIFT), TAG_EXTENDED_BIT)>>,
             field_number)

CompactTagResult(field_number, wire_type, bytes_read) ==
    [field_number |-> field_number, wire_type |-> wire_type, bytes_read |-> bytes_read]

\* The loop of decode_compact_tag's extended branch; i is the 0-based index
\* of the next byte of data.
RECURSIVE decode_extended_loop(_, _, _, _, _)
decode_extended_loop(data, wire_type, field_number, shift, i) ==
    IF i >= Len(data) THEN None
    ELSE LET b == data[i + 1]
             fn == WordOr(field_number, WordShlByte(b % 128, shift, 2))
         IN  IF b < 128 THEN Some(CompactTagResult(fn, wire_type, i + 1))
             ELSE IF shift + 7 >= 35 THEN None
             ELSE decode_extended_loop(data, wire_type, fn, shift + 7, i + 1)

\* decode_compact_tag
decode_compact_tag(data) ==
    IF Len(data) = 0 THEN None
    ELSE LET tag == data[1]
             wire_type == from_u8(TagWireTypeBits(tag))
         IN  IF tag = END_MARKER THEN Some(CompactTagResult(U32_ZERO, Varint, 1))
             ELSE IF ~wire_type.some THEN None
             ELSE IF BitAnd(tag, TAG_EXTENDED_BIT) = 0
             THEN Some(CompactTagResult(U32Of(tag \div Pow2(TAG_FIELD_NUM_SHIFT)),
                                        wire_type.val, 1))
             ELSE decode_extended_loop(data, wire_type.val, U32_ZERO, 0, 1)

FieldTag(field_number, wire_type) == [field_number |-> field_number, wire_type |-> wire_type]

(***************************************************************************)
(* writer.rs                                                               *)
(***************************************************************************)
\* Writer::write_tag
write_tag(buffer, field_number, wire_type) == buffer \o encode_compact(field_number, wire_type)

\* Writer::write_end_marker
write_end_marker(buffer) == Append(buffer, END_MARKER)

\* Writer::write_varint (a u32) and Writer::write_varint64 (a u64): the same loop.
RECURSIVE write_varint(_, _)
write_varint(buffer, value) ==
    IF WordGt(value, [i \in 1..Len(value) |-> IF i = 1 THEN 127 ELSE 0])
    THEN write_varint(Append(buffer, BitOr(AsU8(value) % 128, 128)), WordShr(value, 7))
    ELSE Append(buffer, AsU8(value))

(***************************************************************************)
(* reader.rs                                                               *)
(***************************************************************************)
MAX_VARINT_BYTES == 10

Reader_new(data) == [buffer |-> data, pos |-> 0]

\* Reader::remaining, Reader::has_more
remaining(r) == Len(r.buffer) - r.pos
has_more(r) == r.pos < Len(r.buffer)

\* Reader::check_available: TRUE when Ok.  needed is a usize; pos + needed
\* does not overflow 64 bits for any needed that comes from a u32.
check_available(r, needed) ==
    ~WordGt(WordAddSmall(needed, r.pos), Usize(Len(r.buffer)))

\* A reader moved to pos (self.pos = pos).
At(r, pos) == [r EXCEPT !.pos = pos]

\* Reader::read_tag, after `let remaining = &self.buffer[self.pos..]`
read_tag_from(r, rem, result) ==
    IF ~result.some THEN Err(InvalidWireType(rem[1]), r.pos)
    ELSE Ok(FieldTag(result.val.field_number, result.val.wire_type),
            r.pos + result.val.bytes_read)

\* Reader::read_tag
read_tag(r) ==
    IF ~has_more(r) THEN Err(BufferUnderflow(Usize(1), 0), r.pos)
    ELSE read_tag_from(r, SubSeq(r.buffer, r.pos + 1, Len(r.buffer)),
                       decode_compact_tag(SubSeq(r.buffer, r.pos + 1, Len(r.buffer))))

\* Reader::peek_end_marker
peek_end_marker(r) == r.pos < Len(r.buffer) /\ r.buffer[r.pos + 1] = END_MARKER

\* Reader::is_end_marker
is_end_marker(tag) == WordIsZero(tag.field_number)

\* Writer::write_length_prefixed_bytes, Writer::write_string (value.as_bytes())
write_length_prefixed_bytes(buffer, data) == write_varint(buffer, U32Of(Len(data))) \o data
write_string(buffer, value) == write_varint(buffer, U32Of(Len(value))) \o value

\* zigzag_encode_32: ((n << 1) ^ (n >> 31)) as u32, >> being arithmetic on an
\* i32 (an i32 is kept as its 32-bit two's complement pattern).
zigzag_encode_32(n) ==
    WordXor(WordShl1(n), IF WordTopBit(n) = 1 THEN WordAllOnes(2) ELSE WordZero(2))

\* zigzag_decode_32: ((n >> 1) as i32) ^ (-((n & 1) as i32))
zigzag_decode_32(n) ==
    WordXor(WordShr(n, 1), IF n[1] % 2 = 1 THEN WordAllOnes(2) ELSE WordZero(2))

\* Writer::write_svarint, Writer::write_int32
write_svarint(buffer, value) == write_varint(buffer, zigzag_encode_32(value))
write_int32(buffer, value) == write_svarint(buffer, value)

\* Writer::write_int32_field, Writer::write_string_field
write_int32_field(buffer, field_number, value) ==
    write_int32(write_tag(buffer, field_number, SVarint), value)
write_string_field(buffer, field_number, value) ==
    write_string(write_tag(buffer, field_number, Bytes), value)

\* The loop of Reader::read_varint (width 2 limbs: the fifth byte, i = 4, may
\* carry only bits 0..3) and of Reader::read_varint64 (width 4 limbs: the
\* tenth byte, i = 9, may only be 0 or 1); i is the loop index.
RECURSIVE read_varint_loop(_, _, _, _, _)
read_varint_loop(r, width, i, result, shift) ==
    IF i = MAX_VARINT_BYTES THEN Err(VarintOverflow, r.pos)
    ELSE IF ~check_available(r, Usize(1)) THEN Err(BufferUnderflow(Usize(1), remaining(r)), r.pos)
    ELSE LET b == r.buffer[r.pos + 1]
         IN  IF width = 2 /\ i = 4 /\ BitAnd(b, 240) # 0 THEN Err(VarintOverflow, r.pos + 1)
             ELSE IF width = 4 /\ i = 9 /\ (b >= 128 \/ b > 1) THEN Err(VarintOverflow, r.pos + 1)
             ELSE IF b < 128
             THEN Ok(WordOr(result, WordShlByte(b % 128, shift, width)), r.pos + 1)
             ELSE read_varint_loop(At(r, r.pos + 1), width, i + 1,
                                   WordOr(result, WordShlByte(b % 128, shift, width)),
                                   shift + 7)

\* Not the program: read_varint64 with the u32 loop of read_varint.
read_varint64_Narrow(r) == read_varint_loop(r, 2, 0, WordZero(2), 0)

\* Not the program: read_varint as a u64 read cut down by `as u32`.
read_varint_Wide(r) ==
    Try(read_varint_loop(r, 4, 0, WordZero(4), 0),
        LAMBDA v : Ok(SubSeq(v.val, 1, 2), v.pos))

\* Not the program: read_varint64 without the test of the tenth byte, the
\* bits shifted beyond bit 63 being lost.
read_varint64_DropsHighBits(r) ==
    Try(read_varint_loop(r, 8, 0, WordZero(8), 0),
        LAMBDA v : Ok(SubSeq(v.val, 1, 4), v.pos))

\* Reader::read_varint, Reader::read_varint64
read_varint(r) == read_varint_loop(r, 2, 0, WordZero(2), 0)
read_varint64(r) == read_varint_loop(r, 4, 0, WordZero(4), 0)

\* Reader::read_svarint, Reader::read_int32
read_svarint(r) == Try(read_varint(r), LAMBDA v : Ok(zigzag_decode_32(v.val), v.pos))
read_int32(r) == read_svarint(r)

\* self.pos + needed is 2^64 or more (needed a usize): the sum, wrapped, is
\* below needed.  With overflow checks the addition in check_available
\* panics; without them the sum wraps to less than self.pos, check_available
\* returns Ok, and the slice self.pos..self.pos + length, which ends before
\* it starts, panics.
add_overflows(pos, needed) == WordGt(needed, WordAddSmall(needed, pos))

\* The thread panicked inside the call; the reader is as it was.
Panic == [kind |-> "panic"]

\* Not the program: skip_bytes without check_available.
skip_bytes_Unchecked(r, n) == Ok(<<>>, r.pos + n[1])

\* Not the program: read_bytes returning the bytes there are when fewer than
\* length remain.
read_bytes_Clamped(r, length) ==
    IF check_available(r, length)
    THEN Ok(SubSeq(r.buffer, r.pos + 1, r.pos + length[1]), r.pos + length[1])
    ELSE Ok(SubSeq(r.buffer, r.pos + 1, Len(r.buffer)), Len(r.buffer))

\* Reader::read_bytes; length is a usize.
read_bytes(r, length) ==
    IF add_overflows(r.pos, length) THEN Err(Panic, r.pos)
    ELSE IF ~check_available(r, length) THEN Err(BufferUnderflow(length, remaining(r)), r.pos)
    ELSE Ok(SubSeq(r.buffer, r.pos + 1, r.pos + length[1]), r.pos + length[1])

\* std::str::from_utf8(bytes).is_ok(): well-formed UTF-8 (Unicode table 3-7).
\* ASCII bytes are passed over up to the first byte >= 0x80, at index k.
RECURSIVE ValidUtf8(_)
ValidUtf8(bytes) ==
    LET n == Len(bytes)
        Cont(i) == i <= n /\ bytes[i] \in 128..191
        In(i, lo, hi) == i <= n /\ bytes[i] \in lo..hi
        Rest(i) == ValidUtf8(SubSeq(bytes, i, n))
    IN  IF \A i \in 1..n : bytes[i] < 128 THEN TRUE
        ELSE LET k == CHOOSE i \in 1..n : bytes[i] >= 128 /\ \A j \in 1..(i - 1) : bytes[j] < 128
                 b == bytes[k]
             IN  IF b \in 194..223 THEN Cont(k + 1) /\ Rest(k + 2)
                 ELSE IF b = 224 THEN In(k + 1, 160, 191) /\ Cont(k + 2) /\ Rest(k + 3)
                 ELSE IF b \in (225..236) \cup {238, 239}
                 THEN Cont(k + 1) /\ Cont(k + 2) /\ Rest(k + 3)
                 ELSE IF b = 237 THEN In(k + 1, 128, 159) /\ Cont(k + 2) /\ Rest(k + 3)
                 ELSE IF b = 240
                 THEN In(k + 1, 144, 191) /\ Cont(k + 2) /\ Cont(k + 3) /\ Rest(k + 4)
                 ELSE IF b \in 241..243
                 THEN Cont(k + 1) /\ Cont(k + 2) /\ Cont(k + 3) /\ Rest(k + 4)
                 ELSE IF b = 244
                 THEN In(k + 1, 128, 143) /\ Cont(k + 2) /\ Cont(k + 3) /\ Rest(k + 4)
                 ELSE FALSE

\* Reader::read_length_prefixed_bytes, Reader::read_string
read_length_prefixed_bytes(r) ==
    Try(read_varint(r), LAMBDA length : read_bytes(At(r, length.pos), U32AsUsize(length.val)))

read_string(r) ==
    Try(read_length_prefixed_bytes(r),
        LAMBDA bytes : IF ValidUtf8(bytes.val) THEN bytes ELSE Err(InvalidUtf8, bytes.pos))

\* self.check_available(n)?; self.pos += n; of Reader::skip_field; n is a usize.
skip_bytes(r, n) ==
    IF check_available(r, n) THEN Ok(<<>>, r.pos + n[1])
    ELSE Err(BufferUnderflow(n, remaining(r)), r.pos)

\* Reader::skip_field
skip_field(r, wire_type) ==
    IF wire_type \in {Varint, SVarint}
    THEN Try(read_varint64(r), LAMBDA v : Ok(<<>>, v.pos))
    ELSE IF wire_type = Fixed64 THEN skip_bytes(r, Usize(8))
    ELSE IF wire_type = Bytes
    THEN Try(read_varint(r),
             LAMBDA length : skip_bytes(At(r, length.pos), U32AsUsize(length.val)))
    ELSE skip_bytes(r, Usize(4))

\* Reader::sub_reader: Ok(val) is the sub-reader, pos the parent's position.
sub_reader(r, length) ==
    IF add_overflows(r.pos, length) THEN Err(Panic, r.pos)
    ELSE IF ~check_available(r, length) THEN Err(BufferUnderflow(length, remaining(r)), r.pos)
    ELSE Ok(Reader_new(SubSeq(r.buffer, r.pos + 1, r.pos + length[1])), r.pos + length[1])

(***************************************************************************)
(* writer.rs and reader.rs: the other primitives.  A u64 / i64 is four     *)
(* limbs; an f32 / f64 is its IEEE 754 bit pattern (two / four limbs), the *)
(* value to_le_bytes and from_le_bytes work on.                            *)
(***************************************************************************)
U64_ZERO == WordZero(4)
U64_MAX == WordAllOnes(4)

\* (v: u32) as u64
U32AsU64(v) == <<v[1], v[2], 0, 0>>

\* Not the program: write_varint64 with the loop test `value > 0x80`.
RECURSIVE write_varint64_Threshold(_, _)
write_varint64_Threshold(buffer, value) ==
    IF WordGt(value, <<128, 0, 0, 0>>)
    THEN write_varint64_Threshold(Append(buffer, BitOr(AsU8(value) % 128, 128)),
                                  WordShr(value, 7))
    ELSE Append(buffer, AsU8(value))

\* Writer::write_varint64
RECURSIVE write_varint64(_, _)
write_varint64(buffer, value) ==
    IF WordGt(value, <<127, 0, 0, 0>>)
    THEN write_varint64(Append(buffer, BitOr(AsU8(value) % 128, 128)), WordShr(value, 7))
    ELSE Append(buffer, AsU8(value))

\* zigzag_encode_64: ((n << 1) ^ (n >> 63)) as u64
zigzag_encode_64(n) ==
    WordXor(WordShl1(n), IF WordTopBit(n) = 1 THEN WordAllOnes(4) ELSE WordZero(4))

\* Not the program: zigzag_decode_64 as n >> 1, the sign not restored.
zigzag_decode_64_NoSign(n) == WordShr(n, 1)

\* zigzag_decode_64: ((n >> 1) as i64) ^ (-((n & 1) as i64))
zigzag_decode_64(n) ==
    WordXor(WordShr(n, 1), IF n[1] % 2 = 1 THEN WordAllOnes(4) ELSE WordZero(4))

\* to_le_bytes / from_le_bytes of a u32, u64, f32 or f64
to_le_bytes(v) ==
    [k \in 1..(2 * Len(v)) |->
        IF k % 2 = 1 THEN v[(k + 1) \div 2] % 256 ELSE v[k \div 2] \div 256]
from_le_bytes(bytes) ==
    [i \in 1..(Len(bytes) \div 2) |-> bytes[2 * i - 1] + 256 * bytes[2 * i]]

\* Writer::write_byte, Writer::write_bool (value is a BOOLEAN)
write_byte(buffer, value) == Append(buffer, value)
write_bool(buffer, value) == write_byte(buffer, IF value THEN 1 ELSE 0)

\* Writer::write_svarint64, write_int64, write_uint32, write_uint64
write_svarint64(buffer, value) == write_varint64(buffer, zigzag_encode_64(value))
write_int64(buffer, value) == write_svarint64(buffer, value)
write_uint32(buffer, value) == write_varint(buffer, value)
write_uint64(buffer, value) == write_varint64(buffer, value)

\* Writer::write_float32, write_float64, write_fixed32, write_fixed64
write_float32(buffer, value) == buffer \o to_le_bytes(value)
write_float64(buffer, value) == buffer \o to_le_bytes(value)
write_fixed32(buffer, value) == buffer \o to_le_bytes(value)
write_fixed64(buffer, value) == buffer \o to_le_bytes(value)

\* Not the program: write_float32_field with the tag of an eight-byte field.
write_float32_field_Fixed64Tag(buffer, field_number, value) ==
    write_float32(write_tag(buffer, field_number, Fixed64), value)

\* Writer::write_bool_field ... Writer::write_bytes_field
write_bool_field(buffer, field_number, value) ==
    write_bool(write_tag(buffer, field_number, Varint), value)
write_int64_field(buffer, field_number, value) ==
    write_int64(write_tag(buffer, field_number, SVarint), value)
write_uint32_field(buffer, field_number, value) ==
    write_uint32(write_tag(buffer, field_number, Varint), value)
write_uint64_field(buffer, field_number, value) ==
    write_uint64(write_tag(buffer, field_number, Varint), value)
write_float32_field(buffer, field_number, value) ==
    write_float32(write_tag(buffer, field_number, Fixed32), value)
write_float64_field(buffer, field_number, value) ==
    write_float64(write_tag(buffer, field_number, Fixed64), value)
write_bytes_field(buffer, field_number, value) ==
    write_length_prefixed_bytes(write_tag(buffer, field_number, Bytes), value)

\* Reader::read_byte, Reader::read_bool
read_byte(r) ==
    IF ~check_available(r, Usize(1)) THEN Err(BufferUnderflow(Usize(1), remaining(r)), r.pos)
    ELSE Ok(r.buffer[r.pos + 1], r.pos + 1)
read_bool(r) == Try(read_byte(r), LAMBDA b : Ok(b.val # 0, b.pos))

\* Reader::read_svarint64, read_int64, read_uint32, read_uint64
read_svarint64(r) == Try(read_varint64(r), LAMBDA v : Ok(zigzag_decode_64(v.val), v.pos))
read_int64(r) == read_svarint64(r)
read_uint32(r) == read_varint(r)
read_uint64(r) == read_varint64(r)

\* Reader::read_float32, read_float64, read_fixed32, read_fixed64
read_float32(r) == Try(read_bytes(r, Usize(4)), LAMBDA b : Ok(from_le_bytes(b.val), b.pos))
read_float64(r) == Try(read_bytes(r, Usize(8)), LAMBDA b : Ok(from_le_bytes(b.val), b.pos))
read_fixed32(r) == Try(read_bytes(r, Usize(4)), LAMBDA b : Ok(from_le_bytes(b.val), b.pos))
read_fixed64(r) == Try(read_bytes(r, Usize(8)), LAMBDA b : Ok(from_le_bytes(b.val), b.pos))

(***************************************************************************)
(* The encoder/decoder pairs that are registered: the message types of the *)
(* repository's tests.  A value carries its Rust type in ty (what          *)
(* downcast_ref::<T>() tests).                                             *)
(***************************************************************************)
TestMessage(value, name) == [ty |-> "TestMessage", value |-> value, name |-> name]
NestedMessage(name, value) == [ty |-> "NestedMessage", value |-> value, name |-> name]

\* encode_test_message (it cannot fail)
encode_test_message(buffer, msg) ==
    write_end_marker(
        write_string_field(write_int32_field(buffer, U32Of(1), msg.value), U32Of(2), msg.name))

\* decode_test_message: the loop, with the fields decoded so far, and the
\* body of the loop after read_tag.
RECURSIVE decode_test_message_loop(_, _, _)
decode_test_message_field(r, tag, value, name) ==
    IF is_end_marker(tag) THEN Ok(TestMessage(value, name), r.pos)
    ELSE IF tag.field_number = U32Of(1)
    THEN Try(read_int32(r),
             LAMBDA v : decode_test_message_loop(At(r, v.pos), v.val, name))
    ELSE IF tag.field_number = U32Of(2)
    THEN Try(read_string(r),
             LAMBDA v : decode_test_message_loop(At(r, v.pos), value, v.val))
    ELSE Try(skip_field(r, tag.wire_type),
             LAMBDA v : decode_test_message_loop(At(r, v.pos), value, name))

decode_test_message_loop(r, value, name) ==
    IF ~has_more(r) THEN Ok(TestMessage(value, name), r.pos)
    ELSE Try(read_tag(r),
             LAMBDA tag : decode_test_message_field(At(r, tag.pos), tag.val, value, name))

decode_test_message(r) == decode_test_message_loop(r, U32Of(0), <<>>)

\* encode_nested_message (it cannot fail)
encode_nested_message(buffer, msg) ==
    write_svarint(
        write_tag(
            write_string(write_tag(write_varint(buffer, U32Of(2)), U32Of(1), Bytes), msg.name),
            U32Of(2), Varint),
        msg.value)

\* decode_nested_message: the loop `for _ in 0..field_count`, left iterations
\* to go, and the body of the loop after read_tag.
RECURSIVE decode_nested_message_loop(_, _, _, _)
decode_nested_message_field(r, tag, left, name, value) ==
    IF tag.field_number = U32Of(1)
    THEN Try(read_string(r),
             LAMBDA v : decode_nested_message_loop(At(r, v.pos), WordDec(left), v.val, value))
    ELSE IF tag.field_number = U32Of(2)
    THEN Try(read_svarint(r),
             LAMBDA v : decode_nested_message_loop(At(r, v.pos), WordDec(left), name, v.val))
    ELSE Try(skip_field(r, tag.wire_type),
             LAMBDA v : decode_nested_message_loop(At(r, v.pos), WordDec(left), name, value))

decode_nested_message_loop(r, left, name, value) ==
    IF WordIsZero(left) THEN Ok(NestedMessage(name, value), r.pos)
    ELSE Try(read_tag(r),
             LAMBDA tag : decode_nested_message_field(At(r, tag.pos), tag.val, left, name,
                                                      value))

decode_nested_message(r) ==
    Try(read_varint(r),
        LAMBDA field_count : decode_nested_message_loop(At(r, field_count.pos),
                                                        field_count.val, <<>>, U32Of(0)))

\* The Encoder<T> / Decoder<T> registered for type T.
Encoder(ty, buffer, value) ==
    IF ty = "TestMessage" THEN encode_test_message(buffer, value)
    ELSE encode_nested_message(buffer, value)

Decoder(ty, r) ==
    IF ty = "TestMessage" THEN decode_test_message(r) ELSE decode_nested_message(r)

(***************************************************************************)
(* registry.rs                                                             *)
(***************************************************************************)
\* TypeRegistration: encoder and decoder are the closures made for type ty.
TypeRegistration(type_id, name, ty) == [type_id |-> type_id, name |-> name, ty |-> ty]

\* The RegistryInner behind the lock.
Inner == [by_id |-> by_id, by_name |-> by_name, next_type_id |-> next_type_id]

\* HashMap::insert
Insert(map, key, val) == (key :> val) @@ map

\* Not the program: a registration that leaves the by-ID index as it was.
register_with_id_inner_NoByIdInsert(inner, name, type_id, ty, overflow_checks) ==
    [by_id |-> inner.by_id,
     by_name |-> Insert(inner.by_name, name, type_id),
     next_type_id |-> IF WordGe(type_id, inner.next_type_id) THEN WordInc(type_id)
                      ELSE inner.next_type_id,
     panicked |-> FALSE,
     type_id |-> type_id]

\* Registry::register_with_id_inner.  `type_id + 1` overflows for u32::MAX:
\* with overflow checks (a debug build) the call panics there, after both
\* inserts, the write guard is dropped by the unwinding and the lock is
\* poisoned; without them (a release build) the sum wraps to 0.
register_with_id_inner(inner, name, type_id, ty, overflow_checks) ==
    LET ids == Insert(inner.by_id, type_id, TypeRegistration(type_id, name, ty))
        names == Insert(inner.by_name, name, type_id)
        bump == WordGe(type_id, inner.next_type_id)
        panics == bump /\ WordIsMax(type_id) /\ overflow_checks
    IN  [by_id |-> ids,
         by_name |-> names,
         next_type_id |-> IF bump /\ ~panics THEN WordInc(type_id) ELSE inner.next_type_id,
         panicked |-> panics,
         type_id |-> type_id]

\* The AnyEncoder closure of a registration: downcast, then the encoder.
any_encoder(reg, buffer, value) ==
    IF value.ty # reg.ty
    THEN [ok |-> FALSE, err |-> Custom(<<"Type mismatch for ", reg.name>>), buffer |-> buffer]
    ELSE [ok |-> TRUE, err |-> NoError, buffer |-> Encoder(reg.ty, buffer, value)]

\* The AnyDecoder closure of a registration.
any_decoder(reg, r) == Decoder(reg.ty, r)

\* encode_polymorphic without the outer length prefix: a mutation.
encode_polymorphic_NoOuterLength(inner, buffer, field_number, name, value) ==
    IF name \notin DOMAIN inner.by_name
    THEN [ok |-> FALSE, err |-> TypeNotRegistered(name), buffer |-> buffer,
          encoder_called |-> FALSE, type_id |-> U32_ZERO, encoded |-> <<>>]
    ELSE LET type_id == inner.by_name[name]
             value_writer == any_encoder(inner.by_id[type_id], <<>>, value)
         IN  [ok |-> value_writer.ok, err |-> value_writer.err,
              buffer |-> write_tag(buffer, field_number, Bytes)
                             \o write_length_prefixed_bytes(write_varint(<<>>, type_id),
                                                            value_writer.buffer),
              encoder_called |-> TRUE, type_id |-> type_id,
              encoded |-> value_writer.buffer]

\* Registry::encode_polymorphic on the caller's writer (its buffer): the
\* result, the caller's buffer afterwards, and which closure ran.
encode_polymorphic(inner, buffer, field_number, name, value) ==
    IF name \notin DOMAIN inner.by_name
    THEN [ok |-> FALSE, err |-> TypeNotRegistered(name), buffer |-> buffer,
          encoder_called |-> FALSE, type_id |-> U32_ZERO, encoded |-> <<>>]
    ELSE LET type_id == inner.by_name[name]
             reg == inner.by_id[type_id]
             tagged == write_tag(buffer, field_number, Bytes)
             type_ref_writer == write_varint(<<>>, type_id)
             value_writer == any_encoder(reg, <<>>, value)
         IN  IF ~value_writer.ok
             THEN [ok |-> FALSE, err |-> value_writer.err, buffer |-> tagged,
                   encoder_called |-> TRUE, type_id |-> type_id, encoded |-> <<>>]
             ELSE [ok |-> TRUE, err |-> NoError,
                   buffer |-> write_length_prefixed_bytes(
                                  tagged,
                                  write_length_prefixed_bytes(type_ref_writer,
                                                              value_writer.buffer)),
                   encoder_called |-> TRUE, type_id |-> type_id,
                   encoded |-> value_writer.buffer]

\* What a decode_polymorphic call yields.
DecodeResult(ok, err, name, value, pos, decoder_called) ==
    [ok |-> ok, err |-> err, name |-> name, value |-> value, pos |-> pos,
     decoder_called |-> decoder_called]

\* `res?` in decode_polymorphic, followed by the rest of the function, K.
TryDecode(res, K(_)) ==
    IF res.ok THEN K(res) ELSE DecodeResult(FALSE, res.err, "", <<>>, res.pos, FALSE)

\* The end of decode_polymorphic: `(reg.decoder)(&mut sub_reader)?` and the Ok.
decode_polymorphic_value(reg, pos, value) ==
    IF value.ok THEN DecodeResult(TRUE, NoError, reg.name, value.val, pos, TRUE)
    ELSE DecodeResult(FALSE, value.err, "", <<>>, pos, TRUE)

\* decode_polymorphic reading the length before it resolves the ID: a mutation.
decode_polymorphic_LengthFirst(inner, r) ==
    TryDecode(read_varint(r), LAMBDA type_id :
        TryDecode(read_varint(At(r, type_id.pos)), LAMBDA length :
            IF type_id.val \notin DOMAIN inner.by_id
            THEN DecodeResult(FALSE, UnknownTypeId(type_id.val), "", <<>>, length.pos, FALSE)
            ELSE TryDecode(sub_reader(At(r, length.pos), U32AsUsize(length.val)), LAMBDA sub :
                     decode_polymorphic_value(inner.by_id[type_id.val], sub.pos,
                         any_decoder(inner.by_id[type_id.val], sub.val)))))

\* Registry::decode_polymorphic; pos is where it leaves the caller's reader.
decode_polymorphic(inner, r) ==
    TryDecode(read_varint(r), LAMBDA type_id :
        IF type_id.val \notin DOMAIN inner.by_id
        THEN DecodeResult(FALSE, UnknownTypeId(type_id.val), "", <<>>, type_id.pos, FALSE)
        ELSE TryDecode(read_varint(At(r, type_id.pos)), LAMBDA length :
                 TryDecode(sub_reader(At(r, length.pos), U32AsUsize(length.val)), LAMBDA sub :
                     decode_polymorphic_value(inner.by_id[type_id.val], sub.pos,
                         any_decoder(inner.by_id[type_id.val], sub.val)))))

\* Registry::get_type_id, Registry::get_type_name (None: the Err case)
get_type_id(inner, name) ==
    IF name \in DOMAIN inner.by_name THEN Some(inner.by_name[name]) ELSE None
get_type_name(inner, type_id) ==
    IF type_id \in DOMAIN inner.by_id THEN Some(inner.by_id[type_id].name) ELSE None

(***************************************************************************)
(* The state after construction: Registry::new(), Writer::new(), and a     *)
(* Reader over no bytes.                                                   *)
(***************************************************************************)
Threads == 1..NumThreads

FIRST_USER_TYPE_ID == 128

Init ==
    /\ by_id = <<>>
    /\ by_name = <<>>
    /\ next_type_id = U32Of(FIRST_USER_TYPE_ID)
    /\ poisoned = FALSE
    /\ rog = [t \in Threads |-> [pc |-> "idle"]]
    /\ op_count = 0
    /\ auto_assigned = {}
    /\ rog_returns = {}
    /\ writer = <<>>
    /\ reader = Reader_new(<<>>)
    /\ last = [op |-> "init"]

(***************************************************************************)
(* The tag codec: Writer::write_tag, Reader::new and Reader::read_tag on   *)
(* sample field numbers and on crafted inputs.                             *)
(***************************************************************************)
\* Field numbers across the u32 range: both sides of every varint length
\* boundary, and the extremes.
FieldNums ==
    {U32Of(0), U32Of(1), U32Of(2), U32Of(15), U32Of(16), U32Of(17), U32Of(100),
     U32Of(127), U32Of(128), U32Of(1000), U32Of(10000), U32Of(16383), U32Of(16384),
     U32(31, 65535), U32(32, 0), U32(4095, 65535), U32(4096, 0),
     U32(32767, 65535), U32(32768, 0), U32(65535, 65534), U32_MAX}

\* Bytes that follow the first byte of a crafted input: a terminating zero,
\* a continuation byte with no data, a continuation byte with every bit set.
TrailBytes == {0, 128, 255}

Trails == UNION {[1..n -> TrailBytes] : n \in 0..MaxTrail}

\* An extended marker byte and a field-number varint of five bytes, the fifth
\* without the continuation bit: with bits 4..6 clear (the number fits a u32)
\* or set (it does not).
OverlongTags ==
    {<<m>> \o <<c, c, c, c>> \o <<b>> : m \in {1, 5}, c \in {128, 255}, b \in {1, 15, 16, 112, 127}}

TagInputs == {<<>>} \cup {<<b>> \o t : b \in Byte, t \in Trails} \cup OverlongTags

\* writer.write_tag(f, w) on a new Writer
TagWrite ==
    /\ last.op = "init"
    /\ \E f \in FieldNums, w \in WireType :
          /\ writer' = write_tag(writer, f, w)
          /\ last' = [op |-> "write_tag", field_number |-> f, wire_type |-> w]
    /\ UNCHANGED <<registry_vars, reader>>

\* Reader::new(writer.as_bytes())
TagReaderOverWriter ==
    /\ last.op = "write_tag"
    /\ reader' = Reader_new(writer)
    /\ last' = [op |-> "reader_new", written |-> TRUE,
                field_number |-> last.field_number, wire_type |-> last.wire_type]
    /\ UNCHANGED <<registry_vars, writer>>

\* Reader::new(data) on bytes that no Writer produced
TagReaderOverInput ==
    /\ last.op = "init"
    /\ \E data \in TagInputs : reader' = Reader_new(data)
    /\ last' = [op |-> "reader_new", written |-> FALSE,
                field_number |-> U32_ZERO, wire_type |-> Varint]
    /\ UNCHANGED <<registry_vars, writer>>

\* reader.read_tag()
TagRead ==
    /\ last.op = "reader_new"
    /\ LET res == read_tag(reader)
       IN  /\ reader' = [reader EXCEPT !.pos = res.pos]
           /\ last' = [op |-> "read_tag", written |-> last.written,
                       field_number |-> last.field_number, wire_type |-> last.wire_type,
                       pos_before |-> reader.pos, res |-> res]
    /\ UNCHANGED <<registry_vars, writer>>

NextTag ==
    \/ TagWrite
    \/ TagReaderOverWriter
    \/ TagReaderOverInput
    \/ TagRead

SpecTag == Init /\ [][NextTag]_vars

(***************************************************************************)
(* Claims about the tag codec (checked under SpecTag).                     *)
(***************************************************************************)
\* A read_tag of what write_tag(f, w) wrote, for a field number f >= 1.
TagReadBack ==
    /\ last.op = "read_tag"
    /\ last.written
    /\ ~WordIsZero(last.field_number)

\* C8: tag round-trip.  For every field number 1 <= f <= 2^32-1 and every wire
\* type w, read_tag of the bytes of write_tag(f, w) returns exactly (f, w) and
\* consumes exactly the encoded bytes; the encoding is the single byte
\* (f << 4) | (w << 1) when f <= 15, and the marker byte (w << 1) | 1 followed
\* by the varint of f (at least 2 bytes in all) when f >= 16.
C8_TagRoundTrip ==
    TagReadBack =>
        LET f == last.field_number
            w == last.wire_type
            enc == reader.buffer
        IN  /\ last.res.ok
            /\ last.res.val = FieldTag(f, w)
            /\ last.res.pos - last.pos_before = Len(enc)
            /\ ~WordGt(f, U32Of(15)) => enc = <<f[1] * 16 + w * 2>>
            /\ WordGe(f, U32Of(16)) =>
                 /\ Len(enc) >= 2
                 /\ enc[1] = w * 2 + 1
                 /\ Tail(enc) = write_varint(<<>>, f)

\* C8 witness: the largest field number, in extended form (a 5-byte varint),
\* was written with wire type SVarint and read back.
C8_Witness ==
    /\ TagReadBack
    /\ last.field_number = U32_MAX
    /\ last.wire_type = SVarint
    /\ last.res.ok
    /\ Len(reader.buffer) = 6

\* C9 (as claimed): the byte 0x00 decodes as the end marker consuming 1 byte,
\* and whenever read_tag succeeds with field number 0 (what is_end_marker
\* tests) the first byte read was 0x00.
C9_EndMarkerOnlyFromZeroByte ==
    last.op = "read_tag" =>
        LET first == reader.buffer[last.pos_before + 1]
        IN  /\ (Len(reader.buffer) > 0 /\ first = END_MARKER) =>
                 /\ last.res.ok
                 /\ is_end_marker(last.res.val)
                 /\ last.res.pos = last.pos_before + 1
            /\ (last.res.ok /\ is_end_marker(last.res.val)) => first = END_MARKER

\* C10: reserved wire types are rejected.  A first byte b # 0x00 whose bits
\* 1-3 are 5, 6 or 7 makes read_tag fail with InvalidWireType(b), in the compact
\* and in the extended form, with no tag returned and nothing consumed; a first
\* byte whose bits 1-3 are 0..4 never fails with InvalidWireType when the tag is
\* complete (compact, or a field-number varint ended within five bytes).
TagComplete(data) ==
    \/ data[1] % 2 = 0
    \/ \E k \in 2..Len(data) :
          /\ k <= 6
          /\ data[k] < 128
          /\ \A j \in 2..(k - 1) : data[j] >= 128

C10_ReservedWireTypesRejected ==
    (last.op = "read_tag" /\ Len(reader.buffer) > 0) =>
        LET b == reader.buffer[last.pos_before + 1]
            bits == (b \div 2) % 8
        IN  /\ (b # 0 /\ bits \in 5..7) =>
                 /\ ~last.res.ok
                 /\ last.res.err.kind = "InvalidWireType"
                 /\ last.res.err.byte = b
                 /\ reader.pos = last.pos_before
            /\ (bits \in 0..4 /\ TagComplete(reader.buffer)) =>
                 /\ last.res.ok
                 /\ last.res.val.wire_type = bits \/ b = END_MARKER

\* C10 witness: an extended-form first byte with reserved wire type 7, with a
\* complete field-number varint after it, was rejected.
C10_Witness ==
    /\ last.op = "read_tag"
    /\ reader.buffer = <<15, 128, 0>>
    /\ ~last.res.ok
    /\ last.res.err = InvalidWireType(15)

\* C11 (as claimed): read_tag on an empty buffer fails with
\* BufferUnderflow(needed 1, available 0); on a buffer whose first byte has a
\* valid wire type and the extension bit set, and whose other bytes (none, or
\* up to four) all have the continuation bit set, so that the buffer ends
\* inside the field-number varint, read_tag fails with BufferUnderflow.
C11_TruncatedTagIsUnderflow ==
    last.op = "read_tag" =>
        LET data == reader.buffer
        IN  /\ Len(data) = 0 =>
                 /\ ~last.res.ok
                 /\ last.res.err = BufferUnderflow(Usize(1), 0)
            /\ (/\ Len(data) \in 1..5
                /\ data[1] % 2 = 1
                /\ (data[1] \div 2) % 8 \in 0..4
                /\ \A j \in 2..Len(data) : data[j] >= 128) =>
                 /\ ~last.res.ok
                 /\ last.res.err.kind = "BufferUnderflow"

(***************************************************************************)
(* The primitives: a Writer primitive on a sample value, a Reader over     *)
(* what was written, over a prefix of it or over crafted bytes, then the   *)
(* Reader primitive of the pair; and a field written by a write_*_field    *)
(* with another field after it, passed over by read_tag and skip_field.    *)
(***************************************************************************)
\* Limbs on both sides of the varint length boundaries, and the extremes.
LimbSamples == {0, 1, 2, 127, 128, 300, 16383, 16384, 32767, 32768, 65534, 65535}
WideLimbs == {0, 1, 32768, 65535}

\* i64::MAX, 2 and -2 as an i64.
I64Extremes == {<<65535, 65535, 65535, 32767>>, <<2, 0, 0, 0>>, <<65534, 65535, 65535, 65535>>}

\* u32 values (and i32, f32 bit patterns); u64 values (and i64, f64).
U32Samples == {<<lo, hi>> : lo \in LimbSamples, hi \in LimbSamples}
U64Samples ==
    {U32AsU64(v) : v \in U32Samples}
        \cup {<<a, b, c, d>> : a \in WideLimbs, b \in WideLimbs, c \in WideLimbs, d \in WideLimbs}
        \cup I64Extremes

\* &str values (valid UTF-8) and &[u8] values.
Strings == {<<>>, <<97>>, <<104, 105>>, <<195, 169>>, [i \in 1..LongLen |-> 97]}
ByteStrings == {<<>>, <<0>>, <<255, 128>>, <<1, 2, 3>>, [i \in 1..LongLen |-> 255]}

PrimKinds ==
    {"varint", "varint64", "svarint", "svarint64", "fixed32", "fixed64",
     "string", "length_prefixed_bytes"}

\* The values a primitive of each kind is called with.
PrimValues(kind) ==
    IF kind \in {"varint", "svarint", "fixed32"} THEN U32Samples
    ELSE IF kind \in {"varint64", "svarint64", "fixed64"} THEN U64Samples
    ELSE IF kind = "string" THEN Strings
    ELSE ByteStrings

\* writer.write_<kind>(value)
write_prim(kind, buffer, value) ==
    CASE kind = "varint" -> write_varint(buffer, value)
      [] kind = "varint64" -> write_varint64(buffer, value)
      [] kind = "svarint" -> write_svarint(buffer, value)
      [] kind = "svarint64" -> write_svarint64(buffer, value)
      [] kind = "fixed32" -> write_fixed32(buffer, value)
      [] kind = "fixed64" -> write_fixed64(buffer, value)
      [] kind = "string" -> write_string(buffer, value)
      [] kind = "length_prefixed_bytes" -> write_length_prefixed_bytes(buffer, value)

\* reader.read_<kind>()
read_prim(kind, r) ==
    CASE kind = "varint" -> read_varint(r)
      [] kind = "varint64" -> read_varint64(r)
      [] kind = "svarint" -> read_svarint(r)
      [] kind = "svarint64" -> read_svarint64(r)
      [] kind = "fixed32" -> read_fixed32(r)
      [] kind = "fixed64" -> read_fixed64(r)
      [] kind = "string" -> read_string(r)
      [] kind = "length_prefixed_bytes" -> read_length_prefixed_bytes(r)

\* Crafted varints: continuation bytes up to the last byte a reader may take
\* (the fifth for a u32, the tenth for a u64), that byte, and a byte after it.
ContBytes == {128, 255}
TenthBytes == {0, 1, 2, 3, 64, 127, 128, 129, 130, 255}
VarintTails == {<<>>, <<255>>}
VarintInputs ==
    UNION {[1..n -> ContBytes] : n \in 0..4}
        \cup {p \o <<b>> \o t : p \in [1..4 -> ContBytes], b \in Byte, t \in VarintTails}
        \cup {p \o <<b>> \o t : p \in [1..9 -> ContBytes], b \in TenthBytes, t \in VarintTails}

\* writer.write_<kind>(value) on a new Writer
PrimWrite ==
    /\ last.op = "init"
    /\ \E kind \in PrimKinds :
          \E value \in PrimValues(kind) :
             /\ writer' = write_prim(kind, writer, value)
             /\ last' = [op |-> "prim_write", kind |-> kind, value |-> value]
    /\ UNCHANGED <<registry_vars, reader>>

\* Reader::new(&writer.as_bytes()[..cut]): all of what was written, or a
\* proper prefix of it.
PrimReaderOverWritten ==
    /\ last.op = "prim_write"
    /\ \E cut \in 0..Len(writer) :
          /\ reader' = Reader_new(SubSeq(writer, 1, cut))
          /\ last' = [op |-> "prim_reader", kind |-> last.kind, value |-> last.value,
                      written |-> TRUE]
    /\ UNCHANGED <<registry_vars, writer>>

\* Reader::new(data) on a crafted varint, for read_varint or read_varint64
PrimReaderOverInput ==
    /\ last.op = "init"
    /\ \E data \in VarintInputs, kind \in {"varint", "varint64"} :
          /\ reader' = Reader_new(data)
          /\ last' = [op |-> "prim_reader", kind |-> kind, value |-> <<>>,
                      written |-> FALSE]
    /\ UNCHANGED <<registry_vars, writer>>

\* reader.read_<kind>()
PrimRead ==
    /\ last.op = "prim_reader"
    /\ last' = [op |-> "prim_read", kind |-> last.kind, value |-> last.value,
                written |-> last.written, res |-> read_prim(last.kind, reader)]
    /\ reader' = [reader EXCEPT !.pos = last'.res.pos]
    /\ UNCHANGED <<registry_vars, writer>>

FieldTypes ==
    {"bool", "int32", "int64", "uint32", "uint64", "float32", "float64", "string", "bytes"}

U32Few == {<<lo, hi>> : lo \in {0, 127, 128, 65535}, hi \in {0, 127, 128, 65535}}
U64Few ==
    {U32AsU64(v) : v \in U32Few}
        \cup {<<a, b, c, d>> : a \in {0, 65535}, b \in {0, 65535}, c \in {0, 65535}, d \in {0, 65535}}

FieldValues(ty) ==
    IF ty = "bool" THEN BOOLEAN
    ELSE IF ty \in {"int32", "uint32", "float32"} THEN U32Few
    ELSE IF ty \in {"int64", "uint64", "float64"} THEN U64Few
    ELSE IF ty = "string" THEN Strings
    ELSE ByteStrings

\* Field numbers >= 1: compact tags, extended tags, the largest.
FieldNumsGe1 == {U32Of(1), U32Of(15), U32Of(16), U32_MAX}

\* writer.write_<ty>_field(field_number, value)
write_field(ty, buffer, field_number, value) ==
    CASE ty = "bool" -> write_bool_field(buffer, field_number, value)
      [] ty = "int32" -> write_int32_field(buffer, field_number, value)
      [] ty = "int64" -> write_int64_field(buffer, field_number, value)
      [] ty = "uint32" -> write_uint32_field(buffer, field_number, value)
      [] ty = "uint64" -> write_uint64_field(buffer, field_number, value)
      [] ty = "float32" -> write_float32_field(buffer, field_number, value)
      [] ty = "float64" -> write_float64_field(buffer, field_number, value)
      [] ty = "string" -> write_string_field(buffer, field_number, value)
      [] ty = "bytes" -> write_bytes_field(buffer, field_number, value)

\* The wire type write_<ty>_field puts in the tag.
field_wire_type(ty) ==
    CASE ty \in {"bool", "uint32", "uint64"} -> Varint
      [] ty \in {"int32", "int64"} -> SVarint
      [] ty = "float32" -> Fixed32
      [] ty = "float64" -> Fixed64
      [] ty \in {"string", "bytes"} -> Bytes

\* reader.read_<ty>()
read_value(ty, r) ==
    CASE ty = "bool" -> read_bool(r)
      [] ty = "int32" -> read_int32(r)
      [] ty = "int64" -> read_int64(r)
      [] ty = "uint32" -> read_uint32(r)
      [] ty = "uint64" -> read_uint64(r)
      [] ty = "float32" -> read_float32(r)
      [] ty = "float64" -> read_float64(r)
      [] ty = "string" -> read_string(r)
      [] ty = "bytes" -> read_length_prefixed_bytes(r)

Field(ty, field_number, value) == [ty |-> ty, field_number |-> field_number, value |-> value]

\* The field that follows the one passed over.
NextFields ==
    {Field("int32", U32Of(2), U32_MAX),
     Field("string", U32Of(16), <<104, 105>>),
     Field("float64", U32_MAX, <<0, 0, 0, 16368>>)}

\* writer.write_<ty>_field(f, value); writer.write_<next.ty>_field(...) on a
\* new Writer; appended is the number of bytes the first call appended.
FieldWrite ==
    /\ last.op = "init"
    /\ \E ty \in FieldTypes, f \in FieldNumsGe1, next \in NextFields :
          \E value \in FieldValues(ty) :
             /\ writer' = write_field(next.ty,
                                      write_field(ty, writer, f, value),
                                      next.field_number, next.value)
             /\ last' = [op |-> "field_write", field |-> Field(ty, f, value),
                         appended |-> Len(write_field(ty, writer, f, value)) - Len(writer),
                         next |-> next]
    /\ UNCHANGED <<registry_vars, reader>>

\* Reader::new(writer.as_bytes())
FieldReader ==
    /\ last.op = "field_write"
    /\ reader' = Reader_new(writer)
    /\ last' = [last EXCEPT !.op = "field_reader"]
    /\ UNCHANGED <<registry_vars, writer>>

\* let tag = reader.read_tag()?; reader.skip_field(tag.wire_type)
skip_tagged_field(r) ==
    Try(read_tag(r), LAMBDA tag : skip_field(At(r, tag.pos), tag.val.wire_type))

\* What a decoder does with a field it does not know.
FieldSkip ==
    /\ last.op = "field_reader"
    /\ last' = [op |-> "field_skip", field |-> last.field, appended |-> last.appended,
                next |-> last.next, tag |-> read_tag(reader),
                res |-> skip_tagged_field(reader)]
    /\ reader' = [reader EXCEPT !.pos = last'.res.pos]
    /\ UNCHANGED <<registry_vars, writer>>

\* let tag = reader.read_tag()?; then reader.read_<next.ty>()
read_tagged_value(ty, r) ==
    Try(read_tag(r), LAMBDA tag : read_value(ty, At(r, tag.pos)))

\* The decoder goes on with the field after the one it skipped.
FieldReadNext ==
    /\ last.op = "field_skip"
    /\ last.res.ok
    /\ last' = [op |-> "field_read_next", field |-> last.field, appended |-> last.appended,
                next |-> last.next, tag |-> read_tag(reader),
                res |-> read_tagged_value(last.next.ty, reader)]
    /\ reader' = [reader EXCEPT !.pos = last'.res.pos]
    /\ UNCHANGED <<registry_vars, writer>>

NextPrim ==
    \/ PrimWrite
    \/ PrimReaderOverWritten
    \/ PrimReaderOverInput
    \/ PrimRead
    \/ FieldWrite
    \/ FieldReader
    \/ FieldSkip
    \/ FieldReadNext

SpecPrim == Init /\ [][NextPrim]_vars

(***************************************************************************)
(* Claims about the primitives (checked under SpecPrim).                   *)
(***************************************************************************)
\* The reader was made over everything the Writer primitive wrote.
OverAllWritten == last.written /\ reader.buffer = writer

\* C12: read_varint of what write_varint(v) wrote returns v and leaves the
\* reader at the end of the bytes written, for every u32 v; read_varint64 of
\* what write_varint64(v) wrote does the same for every u64 v.
C12_VarintRoundTrip ==
    (last.op = "prim_read" /\ last.kind \in {"varint", "varint64"} /\ OverAllWritten) =>
        /\ last.res.ok
        /\ last.res.val = last.value
        /\ reader.pos = Len(writer)

\* 2^64 - 1 was written in ten bytes and read back.
C12_Witness ==
    /\ last.op = "prim_read"
    /\ last.kind = "varint64"
    /\ last.value = U64_MAX
    /\ OverAllWritten
    /\ Len(writer) = 10
    /\ last.res.ok
    /\ last.res.val = U64_MAX

\* Bit i (from 0) of an unsigned value kept as limbs; 0 beyond its width.
BitOf(v, i) == IF i >= 16 * Len(v) THEN 0 ELSE (v[(i \div 16) + 1] \div Pow2(i % 16)) % 2

\* The k-th (from 0) group of seven bits of v.
Group7(v, k) ==
    BitOf(v, 7 * k) + 2 * BitOf(v, 7 * k + 1) + 4 * BitOf(v, 7 * k + 2)
        + 8 * BitOf(v, 7 * k + 3) + 16 * BitOf(v, 7 * k + 4)
        + 32 * BitOf(v, 7 * k + 5) + 64 * BitOf(v, 7 * k + 6)

\* The number of groups of the minimal LEB128 encoding of v: the groups up to
\* the most significant one that is not zero, one group for 0.
Leb128Len(v) ==
    CHOOSE n \in 1..MAX_VARINT_BYTES :
        /\ \A k \in n..MAX_VARINT_BYTES : Group7(v, k) = 0
        /\ n > 1 => Group7(v, n - 1) # 0

\* The minimal LEB128 encoding of v: the groups from the least significant,
\* the continuation bit on every byte but the last.
Leb128(v) ==
    [k \in 1..Leb128Len(v) |-> Group7(v, k - 1) + (IF k < Leb128Len(v) THEN 128 ELSE 0)]

\* C13: write_varint(v) and write_varint64(v) append exactly the minimal
\* LEB128 encoding of v: one byte for v <= 127, at most five bytes for a u32,
\* at most ten for a u64; 0 -> 00, 127 -> 7f, 128 -> 80 01, 300 -> ac 02,
\* 16384 -> 80 80 01; and for every v below 2^32 the two write the same bytes.
C13_VarintIsMinimalLeb128 ==
    (last.op = "prim_write" /\ last.kind \in {"varint", "varint64"}) =>
        /\ writer = Leb128(last.value)
        /\ \A j \in 1..Len(writer) : (writer[j] >= 128) <=> (j < Len(writer))
        /\ Len(writer) > 1 => writer[Len(writer)] # 0
        /\ (last.value[1] <= 127 /\ \A j \in 2..Len(last.value) : last.value[j] = 0)
              => Len(writer) = 1
        /\ Len(writer) <= (IF last.kind = "varint" THEN 5 ELSE 10)
        /\ last.value[1] = 0 /\ WordFitsSmall(last.value) => writer = <<0>>
        /\ last.value[1] = 127 /\ WordFitsSmall(last.value) => writer = <<127>>
        /\ last.value[1] = 128 /\ WordFitsSmall(last.value) => writer = <<128, 1>>
        /\ last.value[1] = 300 /\ WordFitsSmall(last.value) => writer = <<172, 2>>
        /\ last.value[1] = 16384 /\ WordFitsSmall(last.value) => writer = <<128, 128, 1>>
        /\ last.kind = "varint" => write_varint64(<<>>, U32AsU64(last.value)) = writer

\* write_varint(300) appended ac 02.
C13_Witness ==
    /\ last.op = "prim_write"
    /\ last.kind = "varint"
    /\ last.value = U32Of(300)
    /\ writer = <<172, 2>>

\* Bit i (from 0) of the number that the bytes of a varint encode: bit i % 7
\* of the byte at index i \div 7.
ByteBit(data, i) == (data[(i \div 7) + 1] \div Pow2(i % 7)) % 2

\* The value read is the number encoded by the bytes the reader took, none of
\* its bits lost.
ValueIsEncoded(data, res) ==
    \A i \in 0..(7 * res.pos - 1) : BitOf(res.val, i) = ByteBit(data, i)

\* C14: read_varint takes at most five bytes and never returns a value for an
\* encoding of a number >= 2^32; when the first four bytes all have the
\* continuation bit, it fails with VarintOverflow exactly when the fifth byte
\* has one of bits 4..7 set, and otherwise returns the 32-bit value encoded.
C14_Varint32OverflowBoundary ==
    (last.op = "prim_read" /\ last.kind = "varint") =>
        LET data == reader.buffer
        IN  /\ reader.pos <= 5
            /\ last.res.ok => Len(last.res.val) = 2 /\ ValueIsEncoded(data, last.res)
            /\ (Len(data) >= 5 /\ \A j \in 1..4 : data[j] >= 128) =>
                  /\ (~last.res.ok /\ last.res.err = VarintOverflow)
                        <=> (data[5] \div 16 # 0)
                  /\ data[5] \div 16 = 0 => last.res.ok /\ reader.pos = 5

\* ff ff ff ff 10 encodes 2^32 + 2^28 - 1: VarintOverflow.
C14_Witness ==
    /\ last.op = "prim_read"
    /\ last.kind = "varint"
    /\ reader.buffer = <<255, 255, 255, 255, 16>>
    /\ ~last.res.ok
    /\ last.res.err = VarintOverflow

\* C15: read_varint64 takes at most ten bytes and never drops high-order bits;
\* when the first nine bytes all have the continuation bit, it fails with
\* VarintOverflow exactly when the tenth byte is greater than 1, and otherwise
\* returns the value whose bit 63 is bit 0 of that byte.
C15_Varint64OverflowBoundary ==
    (last.op = "prim_read" /\ last.kind = "varint64") =>
        LET data == reader.buffer
        IN  /\ reader.pos <= 10
            /\ last.res.ok => Len(last.res.val) = 4 /\ ValueIsEncoded(data, last.res)
            /\ (Len(data) >= 10 /\ \A j \in 1..9 : data[j] >= 128) =>
                  /\ (~last.res.ok /\ last.res.err = VarintOverflow) <=> (data[10] > 1)
                  /\ data[10] <= 1 =>
                        /\ last.res.ok
                        /\ reader.pos = 10
                        /\ BitOf(last.res.val, 63) = data[10] % 2

\* ff (nine times) 01 is 2^64 - 1.
C15_Witness ==
    /\ last.op = "prim_read"
    /\ last.kind = "varint64"
    /\ ~last.written
    /\ reader.buffer = <<255, 255, 255, 255, 255, 255, 255, 255, 255, 1>>
    /\ last.res.ok
    /\ last.res.val = U64_MAX

\* z is the ZigZag code of the signed n (both as bit patterns of one width):
\* 2n for n >= 0, and -2n - 1 = 2(-n - 1) + 1 for n < 0, -n - 1 being the
\* complement of n; so bit 0 of z is the sign of n and bit i the bit i - 1 of
\* n, complemented when n < 0.
IsZigZagOf(z, n) ==
    /\ Len(z) = Len(n)
    /\ BitOf(z, 0) = WordTopBit(n)
    /\ \A i \in 1..(16 * Len(n) - 1) : BitOf(z, i) = (BitOf(n, i - 1) + WordTopBit(n)) % 2

\* zigzag_encode_32 or zigzag_encode_64, by the width of n.
zigzag_encode(n) == IF Len(n) = 2 THEN zigzag_encode_32(n) ELSE zigzag_encode_64(n)

\* C16: ZigZag maps 0, -1, 1, -2, 2 to 0, 1, 2, 3, 4 (n >= 0 to 2n, n < 0 to
\* -2n - 1), for i32 and i64 alike; read_svarint of what write_svarint(n)
\* wrote returns n, and so do read_svarint64 and write_svarint64, for every n
\* including the MIN and MAX of the type.
C16_ZigZagRoundTrip ==
    /\ (last.op = "prim_write" /\ last.kind \in {"svarint", "svarint64"}) =>
          /\ IsZigZagOf(zigzag_encode(last.value), last.value)
          /\ writer = Leb128(zigzag_encode(last.value))
          /\ WordIsZero(last.value) => writer = <<0>>
          /\ WordIsMax(last.value) => writer = <<1>>
          /\ last.value[1] = 1 /\ WordFitsSmall(last.value) => writer = <<2>>
          /\ WordIsMax(WordInc(last.value)) => writer = <<3>>
          /\ last.value[1] = 2 /\ WordFitsSmall(last.value) => writer = <<4>>
    /\ (last.op = "prim_read" /\ last.kind \in {"svarint", "svarint64"} /\ OverAllWritten) =>
          /\ last.res.ok
          /\ last.res.val = last.value
          /\ reader.pos = Len(writer)

\* i64::MIN was written as 2^64 - 1 and read back.
C16_Witness ==
    /\ last.op = "prim_read"
    /\ last.kind = "svarint64"
    /\ last.value = <<0, 0, 0, 32768>>
    /\ OverAllWritten
    /\ writer = <<255, 255, 255, 255, 255, 255, 255, 255, 255, 1>>
    /\ last.res.ok
    /\ last.res.val = <<0, 0, 0, 32768>>

\* C17: for every write_<type>_field (bool, int32, int64, uint32, uint64,
\* float32, float64, string, bytes; all five wire types), every field number
\* >= 1 and every value, when another field follows, read_tag and then
\* skip_field(tag.wire_type) succeed and advance the reader by exactly the
\* bytes the call appended, and the next read_tag and read_<type> return the
\* following field unchanged.
C17_UnknownFieldSkipped ==
    /\ last.op = "field_skip" =>
          /\ last.tag.ok
          /\ last.tag.val = FieldTag(last.field.field_number, field_wire_type(last.field.ty))
          /\ last.res.ok
          /\ reader.pos = last.appended
    /\ last.op = "field_read_next" =>
          /\ last.tag.ok
          /\ last.tag.val = FieldTag(last.next.field_number, field_wire_type(last.next.ty))
          /\ last.res.ok
          /\ last.res.val = last.next.value
          /\ reader.pos = Len(writer)

\* A bytes field of LongLen bytes with the largest field number was passed
\* over, and the string field after it read.
C17_Witness ==
    /\ last.op = "field_read_next"
    /\ last.field.ty = "bytes"
    /\ last.field.field_number = U32_MAX
    /\ Len(last.field.value) = LongLen
    /\ last.next.ty = "string"
    /\ last.res.ok
    /\ last.res.val = <<104, 105>>

\* C18: for every value and every pair of a payload writer and its reader
\* (varint, varint64, svarint, fixed32, fixed64, string,
\* length_prefixed_bytes), the read from a proper prefix of the bytes written,
\* the empty prefix included, fails with BufferUnderflow and returns no value.
C18_TruncatedPayloadIsUnderflow ==
    (/\ last.op = "prim_read"
     /\ last.written
     /\ Len(reader.buffer) < Len(writer)
     /\ reader.buffer = SubSeq(writer, 1, Len(reader.buffer))) =>
        /\ ~last.res.ok
        /\ last.res.err.kind = "BufferUnderflow"

\* read_string over 02 68, the first two of the three bytes of "hi".
C18_Witness ==
    /\ last.op = "prim_read"
    /\ last.written
    /\ last.kind = "string"
    /\ writer = <<2, 104, 105>>
    /\ reader.buffer = <<2, 104>>
    /\ ~last.res.ok
    /\ last.res.err.kind = "BufferUnderflow"

(***************************************************************************)
(* stream.rs: StreamWriter over a BufWriter<Vec<u8>>, StreamReader over a  *)
(* BufReader<Cursor<..>>.  A StreamWriter is [buf, capacity, sink]: the    *)
(* BufWriter's pending bytes, its capacity, and the bytes that reached the *)
(* Vec.  A StreamReader is [source, pos, max_message_size]: the bytes of   *)
(* the Cursor, how many of them have been taken, and the largest message   *)
(* length accepted (a usize).                                              *)
(***************************************************************************)
DEFAULT_BUFFER_CAPACITY == 8192
DEFAULT_MAX_MESSAGE_SIZE == Usize(64 * 1024 * 1024)

\* StreamWriter::with_capacity (StreamWriter::new: the default capacity)
StreamWriter_with_capacity(capacity, sink) ==
    [buf |-> <<>>, capacity |-> capacity, sink |-> sink]

\* self.inner.write_all(data) of a BufWriter: data is kept while there is
\* room for it, the pending bytes go out first when there is not, and data of
\* at least the capacity goes straight to the sink.
BufWriter_write_all(w, data) ==
    IF Len(data) < w.capacity - Len(w.buf) THEN [w EXCEPT !.buf = @ \o data]
    ELSE IF Len(data) >= w.capacity
    THEN [w EXCEPT !.sink = @ \o w.buf \o data, !.buf = <<>>]
    ELSE IF Len(data) > w.capacity - Len(w.buf)
    THEN [w EXCEPT !.sink = @ \o w.buf, !.buf = data]
    ELSE [w EXCEPT !.buf = @ \o data]

\* The loop of StreamWriter::write_varint, filling buf[..i]
RECURSIVE stream_write_varint_loop(_, _)
stream_write_varint_loop(buf, value) ==
    IF WordGt(value, <<127, 0, 0, 0>>)
    THEN stream_write_varint_loop(Append(buf, BitOr(AsU8(value) % 128, 128)),
                                  WordShr(value, 7))
    ELSE Append(buf, AsU8(value))

\* StreamWriter::write_varint
stream_write_varint(w, value) ==
    BufWriter_write_all(w, stream_write_varint_loop(<<>>, value))

\* StreamWriter::write_message
write_message(w, data) ==
    BufWriter_write_all(stream_write_varint(w, Usize(Len(data))), data)

\* Not the program: a flush that leaves the pending bytes where they are.
flush_Nothing(w) == w

\* StreamWriter::flush
flush(w) == [w EXCEPT !.sink = @ \o w.buf, !.buf = <<>>]

\* StreamReader::with_capacity (StreamReader::new)
StreamReader_new(source) ==
    [source |-> source, pos |-> 0, max_message_size |-> DEFAULT_MAX_MESSAGE_SIZE]

\* StreamReader::set_max_message_size
set_max_message_size(r, size) == [r EXCEPT !.max_message_size = size]

\* self.inner.read_exact(&mut data), data of n bytes (n a usize): with fewer
\* than n bytes left, an io::Error of kind UnexpectedEof, what was left taken.
read_exact(r, n) ==
    IF WordFitsSmall(n) /\ n[1] <= Len(r.source) - r.pos
    THEN Ok(SubSeq(r.source, r.pos + 1, r.pos + n[1]), r.pos + n[1])
    ELSE Err(Io("UnexpectedEof"), Len(r.source))

\* The loop of StreamReader::read_varint: ten bytes at most, no test of what
\* the tenth byte holds (<< drops the bits shifted beyond bit 63).
RECURSIVE stream_read_varint_loop(_, _, _, _)
stream_read_varint_loop(r, i, result, shift) ==
    IF i = 10 THEN Err(VarintOverflow, r.pos)
    ELSE IF r.pos >= Len(r.source) THEN Err(Io("UnexpectedEof"), r.pos)
    ELSE IF r.source[r.pos + 1] < 128
    THEN Ok(WordOr(result, WordShlByte(r.source[r.pos + 1] % 128, shift, 4)), r.pos + 1)
    ELSE stream_read_varint_loop(At(r, r.pos + 1), i + 1,
                                 WordOr(result, WordShlByte(r.source[r.pos + 1] % 128, shift, 4)),
                                 shift + 7)

\* StreamReader::read_varint
stream_read_varint(r) == stream_read_varint_loop(r, 0, U64_ZERO, 0)

\* The loop of StreamReader::try_read_varint: Ok(None) at the end of the
\* stream before the first byte, Error::UnexpectedEof at the end after it.
RECURSIVE try_read_varint_loop(_, _, _, _)
try_read_varint_loop(r, i, result, shift) ==
    IF i = 10 THEN Err(VarintOverflow, r.pos)
    ELSE IF r.pos >= Len(r.source)
    THEN (IF i = 0 THEN Ok(None, r.pos) ELSE Err(UnexpectedEof, r.pos))
    ELSE IF r.source[r.pos + 1] < 128
    THEN Ok(Some(WordOr(result, WordShlByte(r.source[r.pos + 1] % 128, shift, 4))),
            r.pos + 1)
    ELSE try_read_varint_loop(At(r, r.pos + 1), i + 1,
                              WordOr(result, WordShlByte(r.source[r.pos + 1] % 128, shift, 4)),
                              shift + 7)

\* StreamReader::try_read_varint
try_read_varint(r) == try_read_varint_loop(r, 0, U64_ZERO, 0)

\* The item of MessageIter::next: Some(Ok(data)), Some(Err(e)) or None.
ItemOk(data) == Some([ok |-> TRUE, data |-> data])
ItemErr(e) == Some([ok |-> FALSE, err |-> e])

\* The result of read_message / try_read_message, with what the call did on
\* the way: the length it read (Some, or None when it read none), the
\* position after the length varint, and the size of the payload buffer it
\* allocated with vec![0u8; length] (None when it allocated none).
Framed(res, length, after_varint, allocated) ==
    [ok |-> res.ok, val |-> res.val, err |-> res.err, pos |-> res.pos,
     length |-> length, after_varint |-> after_varint, allocated |-> allocated]

\* Not the program: the guard as `length >= self.max_message_size`.
exceeds_max_OrEqual(length, max_message_size) == WordGe(length, max_message_size)

\* length > self.max_message_size
exceeds_max(length, max_message_size) == WordGt(length, max_message_size)

\* Error::custom(format!("message size {} exceeds maximum {}", ..))
size_exceeded(length, max_message_size) ==
    Custom(<<"message size", length, "exceeds maximum", max_message_size>>)

\* StreamReader::read_message after `let length = self.read_varint()? as usize`
\* (a usize is 64 bits wide)
read_message_of(r, length, after_varint) ==
    IF exceeds_max(length, r.max_message_size)
    THEN Framed(Err(size_exceeded(length, r.max_message_size), after_varint),
                Some(length), after_varint, None)
    ELSE Framed(read_exact(At(r, after_varint), length),
                Some(length), after_varint, Some(length))

\* read_message_of on the Ok of the varint read
read_message_after(r, v) ==
    IF ~v.ok THEN Framed(v, None, v.pos, None)
    ELSE read_message_of(r, v.val, v.pos)

\* StreamReader::read_message
read_message(r) == read_message_after(r, stream_read_varint(r))

\* Ok(Some(data)) of try_read_message
SomeData(res) == IF res.ok THEN [res EXCEPT !.val = Some(@)] ELSE res

\* StreamReader::try_read_message after `self.try_read_varint()?`
try_read_message_after(r, v) ==
    IF ~v.ok THEN Framed(v, None, v.pos, None)
    ELSE IF ~v.val.some THEN Framed(Ok(None, v.pos), None, v.pos, None)
    ELSE SomeData(read_message_of(r, v.val.val, v.pos))

\* StreamReader::try_read_message
try_read_message(r) == try_read_message_after(r, try_read_varint(r))

(***************************************************************************)
(* The stream framer: a StreamWriter that is given messages and flushed,   *)
(* and a StreamReader over what reached the sink, or over crafted bytes,   *)
(* that is asked for messages.  In this specification the variable writer  *)
(* holds the StreamWriter and reader the StreamReader.                     *)
(***************************************************************************)
MaxMsgs == 2

LongMsg == [i \in 1..LongLen |-> 171]
Msgs == {<<>>, <<7>>, <<1, 2>>, <<128, 0, 255>>, LongMsg}

\* A small capacity makes the BufWriter pass bytes on before any flush.
Capacities == {DEFAULT_BUFFER_CAPACITY, 4}

\* Arguments of set_max_message_size.
MaxSizes == {Usize(0), Usize(2), Usize(3)}

\* Declared lengths on both sides of the default maximum, the 100 MiB of
\* test_stream_max_message_size, and the largest u64.
CraftedLengths ==
    {Usize(3), Usize(4), DEFAULT_MAX_MESSAGE_SIZE, WordInc(DEFAULT_MAX_MESSAGE_SIZE),
     Usize(100 * 1024 * 1024), U64_MAX}

\* A length varint and the start of a payload; a stream that ends inside the
\* varint; ten-byte varints, the tenth byte above 1 or with a continuation bit.
StreamInputs ==
    {stream_write_varint_loop(<<>>, l) \o p : l \in CraftedLengths, p \in {<<>>, <<1, 2, 3>>}}
        \cup {<<128>>,
              <<255, 255, 255, 255, 255, 255, 255, 255, 255, 127, 9>>,
              <<128, 128, 128, 128, 128, 128, 128, 128, 128, 2, 9>>,
              <<128, 128, 128, 128, 128, 128, 128, 128, 128, 128, 0>>}

\* StreamWriter::with_capacity(capacity, &mut buffer), buffer a new Vec
StreamWriterNew ==
    /\ last.op = "init"
    /\ \E capacity \in Capacities :
          writer' = StreamWriter_with_capacity(capacity, <<>>)
    /\ last' = [op |-> "stream_writer", msgs |-> <<>>, flushed |-> FALSE]
    /\ UNCHANGED <<registry_vars, reader>>

\* stream.write_message(data)
WriteMessage ==
    /\ last.op = "stream_writer"
    /\ Len(last.msgs) < MaxMsgs
    /\ \E data \in Msgs :
          /\ writer' = write_message(writer, data)
          /\ last' = [last EXCEPT !.msgs = Append(@, data), !.flushed = FALSE]
    /\ UNCHANGED <<registry_vars, reader>>

\* stream.flush()
Flush ==
    /\ last.op = "stream_writer"
    /\ ~last.flushed
    /\ writer' = flush(writer)
    /\ last' = [last EXCEPT !.flushed = TRUE]
    /\ UNCHANGED <<registry_vars, reader>>

\* StreamReader::new(Cursor::new(&buffer)), on what has reached the Vec
StreamReaderOverSink ==
    /\ last.op = "stream_writer"
    /\ reader' = StreamReader_new(writer.sink)
    /\ last' = [op |-> "stream_reader", msgs |-> last.msgs, flushed |-> last.flushed,
                written |-> TRUE, max_set |-> FALSE, calls |-> <<>>]
    /\ UNCHANGED <<registry_vars, writer>>

\* StreamReader::new(Cursor::new(data)) on bytes that no StreamWriter wrote
StreamReaderOverInput ==
    /\ last.op = "init"
    /\ \E data \in StreamInputs : reader' = StreamReader_new(data)
    /\ last' = [op |-> "stream_reader", msgs |-> <<>>, flushed |-> FALSE,
                written |-> FALSE, max_set |-> FALSE, calls |-> <<>>]
    /\ UNCHANGED <<registry_vars, writer>>

\* stream.set_max_message_size(size), before the first read
SetMaxMessageSize ==
    /\ last.op = "stream_reader"
    /\ ~last.max_set
    /\ last.calls = <<>>
    /\ \E size \in MaxSizes : reader' = set_max_message_size(reader, size)
    /\ last' = [last EXCEPT !.max_set = TRUE]
    /\ UNCHANGED <<registry_vars, writer>>

\* A call and its result, as kept in last.calls.
Call(name, pos_before, res) ==
    [call |-> name, pos_before |-> pos_before, ok |-> res.ok, val |-> res.val,
     err |-> res.err, pos |-> res.pos, length |-> res.length,
     after_varint |-> res.after_varint, allocated |-> res.allocated]

\* One call more than there are messages is made at most, two calls on
\* crafted bytes.
CanRead ==
    /\ last.op = "stream_reader"
    /\ Len(last.calls) <= Len(last.msgs) + (IF last.written THEN 0 ELSE 1)

\* stream.read_message()
ReadMessage ==
    /\ CanRead
    /\ last' = [last EXCEPT
                   !.calls = Append(@, Call("read_message", reader.pos, read_message(reader)))]
    /\ reader' = At(reader, last'.calls[Len(last'.calls)].pos)
    /\ UNCHANGED <<registry_vars, writer>>

\* stream.try_read_message()
TryReadMessage ==
    /\ CanRead
    /\ last' = [last EXCEPT
                   !.calls = Append(@, Call("try_read_message", reader.pos,
                                            try_read_message(reader)))]
    /\ reader' = At(reader, last'.calls[Len(last'.calls)].pos)
    /\ UNCHANGED <<registry_vars, writer>>

\* MessageIter::next on the try_read_message result
next_item(res) ==
    IF ~res.ok THEN [res EXCEPT !.val = ItemErr(res.err)]
    ELSE IF res.val.some THEN [res EXCEPT !.val = ItemOk(res.val.val)]
    ELSE [res EXCEPT !.val = None]

\* MessageIter::next: val is the item, the other fields are those of the
\* try_read_message call it made.
MessageIter_next(r) == next_item(try_read_message(r))

\* stream.messages().next()
MessagesNext ==
    /\ CanRead
    /\ last' = [last EXCEPT
                   !.calls = Append(@, Call("next", reader.pos, MessageIter_next(reader)))]
    /\ reader' = At(reader, last'.calls[Len(last'.calls)].pos)
    /\ UNCHANGED <<registry_vars, writer>>

NextStream ==
    \/ StreamWriterNew
    \/ WriteMessage
    \/ Flush
    \/ StreamReaderOverSink
    \/ StreamReaderOverInput
    \/ SetMaxMessageSize
    \/ ReadMessage
    \/ TryReadMessage
    \/ MessagesNext

SpecStream == Init /\ [][NextStream]_vars

(***************************************************************************)
(* Claims about the stream framer (checked under SpecStream).              *)
(***************************************************************************)
\* varint(len(m1)) m1 ... varint(len(mk)) mk
RECURSIVE Framing(_)
Framing(msgs) ==
    IF msgs = <<>> THEN <<>>
    ELSE Leb128(Usize(Len(Head(msgs)))) \o Head(msgs) \o Framing(Tail(msgs))

\* The message a call returned: the Vec of read_message, the Vec in the Some
\* of try_read_message, the Vec in the Some(Ok(..)) of MessageIter::next.
Returned(c) ==
    IF c.call = "read_message" THEN Some(c.val)
    ELSE IF c.call = "try_read_message" THEN c.val
    ELSE IF c.val.some /\ c.val.val.ok THEN Some(c.val.val.data)
    ELSE None

\* No message written is longer than the reader's maximum.
AllWithinMax ==
    \A i \in 1..Len(last.msgs) :
        ~WordGt(Usize(Len(last.msgs[i])), reader.max_message_size)

\* C19: after write_message(m1) .. write_message(mk) and flush, the sink holds
\* varint(len(m1)) m1 .. varint(len(mk)) mk and nothing else; when no mi is
\* longer than the reader's maximum, the i-th read_message or
\* try_read_message on those bytes returns mi, for i = 1..k, and a
\* try_read_message after the k-th returns no message.
C19_StreamRoundTripInOrder ==
    /\ (last.op = "stream_writer" /\ last.flushed) =>
          /\ writer.sink = Framing(last.msgs)
          /\ writer.buf = <<>>
    /\ (last.op = "stream_reader" /\ last.written /\ last.flushed /\ AllWithinMax) =>
          /\ reader.source = Framing(last.msgs)
          /\ \A j \in 1..Len(last.calls) :
                /\ j <= Len(last.msgs) =>
                      /\ last.calls[j].ok
                      /\ Returned(last.calls[j]) = Some(last.msgs[j])
                /\ (j > Len(last.msgs) /\ last.calls[j].call = "try_read_message") =>
                      /\ last.calls[j].ok
                      /\ last.calls[j].val = None

\* An empty message and a message of LongLen bytes were written, flushed and
\* read back in order, one by try_read_message and one by read_message; the
\* try_read_message after them returned no message.
C19_Witness ==
    /\ last.op = "stream_reader"
    /\ last.written
    /\ last.flushed
    /\ last.msgs = <<<<>>, LongMsg>>
    /\ Len(last.calls) = 3
    /\ last.calls[1].call = "try_read_message"
    /\ last.calls[1].val = Some(<<>>)
    /\ last.calls[2].call = "read_message"
    /\ last.calls[2].val = LongMsg
    /\ last.calls[3].call = "try_read_message"
    /\ last.calls[3].ok
    /\ last.calls[3].val = None

\* The length a call read is the number that the bytes of the varint encode
\* (bits 0..63 of it), and the varint ends at after_varint.
LengthIsRead(c) ==
    /\ c.after_varint > c.pos_before
    /\ reader.source[c.after_varint] < 128
    /\ \A i \in 0..(7 * (c.after_varint - c.pos_before) - 1) :
          i < 64 => BitOf(c.length.val, i)
                       = (reader.source[c.pos_before + 1 + (i \div 7)] \div Pow2(i % 7)) % 2

\* C20: the maximum is 64 MiB until set_max_message_size changes it; a
\* read_message or try_read_message that reads a length varint greater than
\* the maximum fails, allocates no payload buffer and takes no byte after the
\* varint; a length equal to the maximum is not rejected by the guard.
C20_MaxSizeGuard ==
    last.op = "stream_reader" =>
        /\ ~last.max_set => reader.max_message_size = Usize(67108864)
        /\ \A j \in 1..Len(last.calls) :
              LET c == last.calls[j]
              IN  c.length.some =>
                     /\ LengthIsRead(c)
                     /\ WordGt(c.length.val, reader.max_message_size) =>
                           /\ ~c.ok
                           /\ c.err.kind = "Custom"
                           /\ ~c.allocated.some
                           /\ c.pos = c.after_varint
                     /\ c.length.val = reader.max_message_size =>
                           /\ c.err.kind # "Custom"
                           /\ c.allocated = Some(c.length.val)
                     /\ j = Len(last.calls) => reader.pos = c.pos

\* With the default maximum, a declared length of 64 MiB + 1 was refused with
\* the three bytes after the varint left in the stream.
C20_Witness ==
    /\ last.op = "stream_reader"
    /\ ~last.max_set
    /\ Len(last.calls) = 1
    /\ last.calls[1].length = Some(WordInc(DEFAULT_MAX_MESSAGE_SIZE))
    /\ ~last.calls[1].ok
    /\ last.calls[1].err.kind = "Custom"
    /\ reader.pos = last.calls[1].after_varint
    /\ Len(reader.source) = reader.pos + 3

(***************************************************************************)
(* The Registry: its operations as calls made by threads.  Each call runs  *)
(* under the write lock or the read lock from start to end and is one      *)
(* step, but register_or_get, which releases the read lock of its fast     *)
(* path before it takes the write lock of its slow path: two steps, and    *)
(* any call of another thread may come between them.  Once the lock is     *)
(* poisoned every call panics at lock().unwrap(): none completes.          *)
(***************************************************************************)
Names == {"A", "B"}
Types == {"TestMessage", "NestedMessage"}

\* Pinned IDs: a reserved one, the first user ID, the largest u32.
PinIds == {U32Of(0), U32Of(FIRST_USER_TYPE_ID), U32_MAX}

\* Values to encode: i32 -1, i32::MIN and 123; short and long strings.
Values ==
    {TestMessage(U32_MAX, <<97>>),
     TestMessage(U32(32768, 0), [i \in 1..LongLen |-> 97]),
     NestedMessage(<<110, 101>>, U32Of(123))}

\* Field numbers of the polymorphic field (a FieldTag's field number is >= 1):
\* one with a compact tag, one with the longest extended tag.
PolyFields == {U32Of(1), U32_MAX}

\* Names asked for: one that registrations use and one that is never registered.
PolyNames == {"A", "C"}

\* What the caller's writer holds before the call: an earlier field.
WriterPrefixes == {<<16, 1>>}

\* Crafted inputs of decode_polymorphic: a type ID, then nothing, a complete
\* payload, or a length with too few bytes after it.
DecodeInputs ==
    {write_varint(<<>>, id) \o rest :
        id \in PinIds \cup {U32Of(FIRST_USER_TYPE_ID + 1)},
        rest \in {<<>>,
                  <<5, 0>>,
                  write_length_prefixed_bytes(<<>>,
                      encode_test_message(<<>>, TestMessage(U32_MAX, <<97>>)))}}
    \cup {<<>>, <<128>>}

\* The new RegistryInner is stored; a panic under the write lock poisons it.
Store(out) ==
    /\ by_id' = out.by_id
    /\ by_name' = out.by_name
    /\ next_type_id' = out.next_type_id
    /\ poisoned' = out.panicked

\* encode_polymorphic and decode_polymorphic leave the Registry as it is, and
\* no registration reads a Writer or a Reader: a behaviour makes its
\* registrations first and its one encoding or decoding after them.
CodecPhase == last.op \in {"encode_polymorphic", "decode_field", "skip_field",
                           "decode_polymorphic"}

CanCall == ~poisoned /\ ~CodecPhase /\ op_count < MaxOps

\* Registry::register
Register ==
    /\ CanCall
    /\ \E name \in Names, ty \in Types, overflow_checks \in BOOLEAN :
          LET type_id == next_type_id
              out == register_with_id_inner(Inner, name, type_id, ty, overflow_checks)
          IN  /\ Store(out)
              /\ auto_assigned' = auto_assigned \cup {type_id}
              /\ last' = [op |-> "register", name |-> name, type_id |-> type_id,
                          registered |-> TRUE, returned |-> ~out.panicked,
                          next_before |-> next_type_id, auto_before |-> auto_assigned,
                          ids_before |-> DOMAIN by_id]
    /\ op_count' = op_count + 1
    /\ UNCHANGED <<rog, rog_returns, writer, reader>>

\* Registry::register_with_id
RegisterWithId ==
    /\ CanCall
    /\ \E name \in Names, ty \in Types, type_id \in PinIds, overflow_checks \in BOOLEAN :
          LET out == register_with_id_inner(Inner, name, type_id, ty, overflow_checks)
          IN  /\ Store(out)
              /\ last' = [op |-> "register_with_id", name |-> name, type_id |-> type_id,
                          registered |-> TRUE, returned |-> ~out.panicked,
                          next_before |-> next_type_id, auto_before |-> auto_assigned,
                          ids_before |-> DOMAIN by_id]
    /\ op_count' = op_count + 1
    /\ UNCHANGED <<rog, auto_assigned, rog_returns, writer, reader>>

\* Registry::register_or_get, the fast path (read lock): a hit returns the ID,
\* a miss goes on to the slow path.
RegisterOrGetFast(t) ==
    /\ CanCall
    /\ rog[t].pc = "idle"
    /\ \E name \in Names, ty \in Types :
          IF name \in DOMAIN by_name
          THEN /\ last' = [op |-> "register_or_get", name |-> name,
                           type_id |-> by_name[name], registered |-> FALSE,
                           returned |-> TRUE, path |-> "fast", thread |-> t,
                           next_before |-> next_type_id, auto_before |-> auto_assigned,
                           ids_before |-> DOMAIN by_id]
               /\ rog_returns' = rog_returns \cup {<<name, by_name[name]>>}
               /\ rog' = rog
          ELSE /\ rog' = [rog EXCEPT ![t] = [pc |-> "slow", name |-> name, ty |-> ty]]
               /\ last' = [op |-> "register_or_get_miss", name |-> name, thread |-> t]
               /\ rog_returns' = rog_returns
    /\ op_count' = op_count + 1
    /\ UNCHANGED <<by_id, by_name, next_type_id, poisoned, auto_assigned, writer, reader>>

\* The slow path without the check made again under the write lock: a mutation.
register_or_get_slow_NoRecheck(inner, name, ty, overflow_checks) ==
    register_with_id_inner(inner, name, inner.next_type_id, ty, overflow_checks)
        @@ [registered |-> TRUE]

\* Registry::register_or_get, the slow path under the write lock: the check
\* again, and the registration if the name is still absent.
register_or_get_slow(inner, name, ty, overflow_checks) ==
    IF name \in DOMAIN inner.by_name
    THEN [by_id |-> inner.by_id, by_name |-> inner.by_name,
          next_type_id |-> inner.next_type_id, panicked |-> FALSE,
          type_id |-> inner.by_name[name], registered |-> FALSE]
    ELSE register_with_id_inner(inner, name, inner.next_type_id, ty, overflow_checks)
             @@ [registered |-> TRUE]

RegisterOrGetSlow(t) ==
    /\ ~poisoned
    /\ ~CodecPhase
    /\ rog[t].pc = "slow"
    /\ \E overflow_checks \in BOOLEAN :
          LET out == register_or_get_slow(Inner, rog[t].name, rog[t].ty, overflow_checks)
          IN  /\ Store(out)
              /\ auto_assigned' = IF out.registered THEN auto_assigned \cup {out.type_id}
                                  ELSE auto_assigned
              /\ rog_returns' = IF out.panicked THEN rog_returns
                                ELSE rog_returns \cup {<<rog[t].name, out.type_id>>}
              /\ last' = [op |-> "register_or_get", name |-> rog[t].name,
                          type_id |-> out.type_id, registered |-> out.registered,
                          returned |-> ~out.panicked, path |-> "slow", thread |-> t,
                          next_before |-> next_type_id, auto_before |-> auto_assigned,
                          ids_before |-> DOMAIN by_id]
    /\ rog' = [rog EXCEPT ![t] = [pc |-> "idle"]]
    /\ UNCHANGED <<op_count, writer, reader>>

\* Registry::encode_polymorphic on the caller's writer
EncodePolymorphic ==
    /\ ~poisoned
    /\ ~CodecPhase
    /\ \E before \in WriterPrefixes, f \in PolyFields, name \in PolyNames, value \in Values :
          /\ last' = [op |-> "encode_polymorphic", before |-> before,
                      field_number |-> f, name |-> name, value |-> value,
                      res |-> encode_polymorphic(Inner, before, f, name, value)]
          /\ writer' = last'.res.buffer
    /\ UNCHANGED <<registry_vars, reader>>

\* The bytes the last encode_polymorphic appended to the writer.
Appended(enc) == SubSeq(enc.res.buffer, Len(enc.before) + 1, Len(enc.res.buffer))

\* A reader of a field that knows polymorphic fields: read_tag, read_varint
\* (the outer length), then Registry::decode_polymorphic.
decode_field(inner, r) ==
    TryDecode(read_tag(r), LAMBDA tag :
        TryDecode(read_varint(At(r, tag.pos)), LAMBDA outer :
            decode_polymorphic(inner, At(r, outer.pos))
                @@ [tag |-> tag.val, outer |-> outer.val]))

DecodeField ==
    /\ ~poisoned
    /\ last.op = "encode_polymorphic"
    /\ last.res.ok
    /\ last' = [op |-> "decode_field", enc |-> last,
                res |-> decode_field(Inner, Reader_new(Appended(last)))]
    /\ reader' = [buffer |-> Appended(last), pos |-> last'.res.pos]
    /\ UNCHANGED <<registry_vars, writer>>

\* A reader of a field that does not know the field: read_tag, then
\* skip_field(tag.wire_type).
skip_unknown_field(r) ==
    Try(read_tag(r), LAMBDA tag : skip_field(At(r, tag.pos), tag.val.wire_type) @@ [tag |-> tag.val])

SkipEncodedField ==
    /\ last.op = "encode_polymorphic"
    /\ last.res.ok
    /\ last' = [op |-> "skip_field", enc |-> last,
                res |-> skip_unknown_field(Reader_new(Appended(last)))]
    /\ reader' = [buffer |-> Appended(last), pos |-> last'.res.pos]
    /\ UNCHANGED <<registry_vars, writer>>

\* Registry::decode_polymorphic on crafted bytes
DecodePolymorphic ==
    /\ ~poisoned
    /\ ~CodecPhase
    /\ \E data \in DecodeInputs :
          /\ last' = [op |-> "decode_polymorphic", data |-> data,
                      res |-> decode_polymorphic(Inner, Reader_new(data))]
          /\ reader' = [buffer |-> data, pos |-> last'.res.pos]
    /\ UNCHANGED <<registry_vars, writer>>

Next ==
    \/ Register
    \/ RegisterWithId
    \/ \E t \in Threads : RegisterOrGetFast(t)
    \/ \E t \in Threads : RegisterOrGetSlow(t)
    \/ EncodePolymorphic
    \/ DecodeField
    \/ SkipEncodedField
    \/ DecodePolymorphic

Spec == Init /\ [][Next]_vars

\* Threads that only call register_or_get, on a new Registry.
NextRegisterOrGet ==
    \/ \E t \in Threads : RegisterOrGetFast(t)
    \/ \E t \in Threads : RegisterOrGetSlow(t)

SpecRegisterOrGet == Init /\ [][NextRegisterOrGet]_vars

(***************************************************************************)
(* Properties of the Registry.                                             *)
(***************************************************************************)
\* C1: after any sequence of register, register_with_id and register_or_get
\* calls the two indexes are a bijection: get_type_name(get_type_id(n)) = n
\* for every registered name n, get_type_id(get_type_name(i)) = i for every
\* registered ID i, and the indexes have the same number of entries.
C1_RegistryBijection ==
    /\ \A n \in DOMAIN by_name :
          /\ get_type_id(Inner, n).some
          /\ get_type_name(Inner, get_type_id(Inner, n).val) = Some(n)
    /\ \A i \in DOMAIN by_id :
          /\ get_type_name(Inner, i).some
          /\ get_type_id(Inner, get_type_name(Inner, i).val) = Some(i)
    /\ Cardinality(DOMAIN by_id) = Cardinality(DOMAIN by_name)

\* The by-ID entries registered under name n.
EntriesNamed(n) == {i \in DOMAIN by_id : by_id[i].name = n}

\* C2: with threads that only call register_or_get on a new registry, under
\* every interleaving of their read-locked and write-locked sections, all
\* calls with the same name return the same ID, which is the name's ID in the
\* by-name index; a name that was asked for has exactly one by-ID entry once
\* a call for it has registered or returned; and the counter has advanced
\* exactly once for each registered name.
C2_RegisterOrGetIdempotent ==
    /\ \A p \in rog_returns, q \in rog_returns : p[1] = q[1] => p[2] = q[2]
    /\ \A p \in rog_returns : p[1] \in DOMAIN by_name /\ by_name[p[1]] = p[2]
    /\ \A n \in DOMAIN by_name :
          /\ EntriesNamed(n) = {by_name[n]}
          /\ by_id[by_name[n]].type_id = by_name[n]
    /\ \A i \in DOMAIN by_id : by_id[i].name \in DOMAIN by_name
    /\ next_type_id = U32Of(FIRST_USER_TYPE_ID + Cardinality(DOMAIN by_name))

\* C2's case: a call that missed on the fast path finds, under the write
\* lock, the name registered meanwhile by another thread, and returns that ID.
C2_Witness ==
    /\ last.op = "register_or_get"
    /\ last.path = "slow"
    /\ ~last.registered
    /\ last.returned
    /\ Cardinality({p \in rog_returns : p[1] = last.name}) = 1
    /\ \A t \in Threads : rog[t].pc = "idle"

\* Is the last step a call that took its ID from the counter and returned it?
AutoAssigned ==
    /\ last.op \in {"register", "register_or_get"}
    /\ last.registered
    /\ last.returned

\* C3: every ID returned by register or by the registering path of
\* register_or_get is >= 128 and greater than every ID auto-assigned before,
\* whatever IDs were pinned (2^32-1 included); the first one of a new
\* registry is 128.
C3_AutoIdsFrom128Increasing ==
    AutoAssigned =>
        /\ WordGe(last.type_id, U32Of(FIRST_USER_TYPE_ID))
        /\ \A p \in last.auto_before : WordGt(last.type_id, p)
        /\ (last.ids_before = {} /\ last.auto_before = {}
               => last.type_id = U32Of(FIRST_USER_TYPE_ID))

\* C4: after register_with_id(name, id) the counter is id + 1 when id was >=
\* the counter and is unchanged otherwise; in every state the counter, the ID
\* register would choose, is not a key of the by-ID index; and the ID an
\* auto-assigning call chose was not a key before the call.
C4_PinKeepsAutoIdsFresh ==
    /\ (last.op = "register_with_id" /\ last.returned) =>
          IF WordGe(last.type_id, last.next_before)
          THEN ~WordIsMax(last.type_id) /\ next_type_id = WordInc(last.type_id)
          ELSE next_type_id = last.next_before
    /\ ~poisoned => next_type_id \notin DOMAIN by_id
    /\ AutoAssigned => last.type_id \notin last.ids_before

\* C5: when encode_polymorphic(writer, f, N, v) has succeeded, read_tag (field
\* f, Bytes), the outer length varint and decode_polymorphic over the bytes
\* written return N and a value equal to v, and end at the end of the bytes.
C5_PolymorphicRoundTrip ==
    last.op = "decode_field" =>
        /\ last.res.ok
        /\ last.res.tag = FieldTag(last.enc.field_number, Bytes)
        /\ last.res.name = last.enc.name
        /\ last.res.value = last.enc.value
        /\ last.res.pos = Len(Appended(last.enc))

\* The type reference of a polymorphic field: varint(type_id),
\* varint(inner_len), the encoder's output.
TypeRefBytes(type_id, encoded) ==
    write_varint(<<>>, type_id) \o write_varint(<<>>, U32Of(Len(encoded))) \o encoded

\* C6: the bytes a successful encode_polymorphic(writer, f, name, v) appends
\* are tag(f, Bytes), varint(outer_len) and outer_len bytes made of
\* varint(type_id), varint(inner_len) and the inner_len bytes of the encoder's
\* output; read_tag and skip_field(tag.wire_type) over them succeed and end
\* at their end.
C6_PolymorphicFieldSkippable ==
    last.op = "skip_field" =>
        LET enc == last.enc
            type_ref == TypeRefBytes(by_name[enc.name],
                                     Encoder(by_id[by_name[enc.name]].ty, <<>>, enc.value))
        IN  /\ Appended(enc) = encode_compact(enc.field_number, Bytes)
                                   \o write_varint(<<>>, U32Of(Len(type_ref)))
                                   \o type_ref
            /\ SubSeq(enc.res.buffer, 1, Len(enc.before)) = enc.before
            /\ last.res.ok
            /\ last.res.tag = FieldTag(enc.field_number, Bytes)
            /\ last.res.pos = Len(Appended(enc))

\* C6's case: a field with an extended tag and lengths of more than one byte
\* has been encoded and skipped.
C6_Witness ==
    /\ last.op = "skip_field"
    /\ last.enc.field_number = U32_MAX
    /\ Len(last.enc.res.encoded) >= 128
    /\ reader.pos = Len(reader.buffer)

\* C7: encode_polymorphic with a name absent from the by-name index fails with
\* TypeNotRegistered(name), decode_polymorphic whose leading varint is an ID
\* absent from the by-ID index fails with UnknownTypeId(id), and neither
\* calls an encoder or a decoder.
C7_ResolutionFailuresTyped ==
    /\ (last.op = "encode_polymorphic" /\ last.name \notin DOMAIN by_name) =>
          /\ ~last.res.ok
          /\ last.res.err = TypeNotRegistered(last.name)
          /\ ~last.res.encoder_called
    /\ (last.op = "decode_polymorphic"
          /\ read_varint(Reader_new(last.data)).ok
          /\ read_varint(Reader_new(last.data)).val \notin DOMAIN by_id) =>
          /\ ~last.res.ok
          /\ last.res.err = UnknownTypeId(read_varint(Reader_new(last.data)).val)
          /\ ~last.res.decoder_called

\* C7's case: a registry with a registration is asked to decode bytes that
\* start with the varint of an ID it does not hold and go on with a payload.
C7_Witness ==
    /\ last.op = "decode_polymorphic"
    /\ DOMAIN by_id # {}
    /\ last.res.err.kind = "UnknownTypeId"
    /\ Len(last.data) > last.res.pos
\* C27 (as claimed): when encode_polymorphic returns an error (name not
\* registered, type mismatch reported as a custom error, or a failure of the
\* registered encoder), the caller's writer holds exactly the bytes it held
\* before the call.
C27_EncodePolymorphicAllOrNothing ==
    (last.op = "encode_polymorphic" /\ ~last.res.ok) => writer = last.before
(***************************************************************************)
(* More claims about the stream framer (checked under SpecStream).         *)
(***************************************************************************)
\* The stream ends after the length varint of c and before the last of the
\* payload bytes it declares.
EndsMidPayload(c) ==
    /\ c.length.some
    /\ ~WordGt(c.length.val, reader.max_message_size)
    /\ WordGt(c.length.val, Usize(Len(reader.source) - c.after_varint))

\* The stream ends inside the length varint that starts at pos_before: one to
\* nine bytes are left, each with the continuation bit.
EndsMidVarint(pos_before) ==
    /\ Len(reader.source) - pos_before \in 1..9
    /\ \A k \in (pos_before + 1)..Len(reader.source) : reader.source[k] >= 128

\* C21 (as claimed): try_read_message returns Ok(None) exactly when the stream
\* yields no byte before any byte of the length varint is read; when the
\* stream ends inside the varint, or after it and before all the declared
\* payload bytes, the call fails with Error::UnexpectedEof, and a message
\* returned is never shorter than declared.
C21_TryReadDistinguishesEof ==
    last.op = "stream_reader" =>
        \A j \in 1..Len(last.calls) :
            LET c == last.calls[j]
            IN  c.call = "try_read_message" =>
                   /\ (c.ok /\ c.val = None) <=> (c.pos_before = Len(reader.source))
                   /\ EndsMidVarint(c.pos_before) => ~c.ok /\ c.err = UnexpectedEof
                   /\ EndsMidPayload(c) => ~c.ok /\ c.err = UnexpectedEof
                   /\ (c.ok /\ c.val.some) => Usize(Len(c.val.val)) = c.length.val

\* calls[j] is an item that is an error.
YieldedErr(c) == c.call = "next" /\ c.val.some /\ ~c.val.val.ok

\* C22 (as claimed): MessageIter::next yields the framed messages in order;
\* after it has yielded an error item every later call yields no item, and
\* after it has returned None every later call returns None.
C22_IteratorEndsAtFirstFailure ==
    last.op = "stream_reader" =>
        /\ (last.written /\ last.flushed /\ AllWithinMax) =>
              \A j \in 1..Len(last.calls) :
                  (j <= Len(last.msgs) /\ \A i \in 1..j : last.calls[i].call = "next")
                      => last.calls[j].val = ItemOk(last.msgs[j])
        /\ \A i \in 1..Len(last.calls), j \in 1..Len(last.calls) :
              (i < j /\ \A k \in i..j : last.calls[k].call = "next") =>
                  /\ YieldedErr(last.calls[i]) => last.calls[j].val = None
                  /\ last.calls[i].val = None => last.calls[j].val = None

\* Reader::read_varint64 on the bytes of the stream from pos_before on.
AsReadVarint64(pos_before) ==
    read_varint64(Reader_new(SubSeq(reader.source, pos_before + 1, Len(reader.source))))

\* C29 (as claimed): StreamReader::read_varint and try_read_varint return a
\* length v only if Reader::read_varint64 returns v on the same bytes, and
\* fail with VarintOverflow when read_varint64 does: a ten-byte varint whose
\* tenth byte is greater than 1 yields no length.
C29_StreamVarintAsReadVarint64 ==
    last.op = "stream_reader" =>
        \A j \in 1..Len(last.calls) :
            LET c == last.calls[j]
            IN  /\ c.length.some =>
                      /\ AsReadVarint64(c.pos_before).ok
                      /\ AsReadVarint64(c.pos_before).val = c.length.val
                /\ (~AsReadVarint64(c.pos_before).ok
                       /\ AsReadVarint64(c.pos_before).err = VarintOverflow) =>
                      /\ ~c.length.some
                      /\ c.err = VarintOverflow
(***************************************************************************)
(* More claims about the tag codec (checked under SpecTag).                *)
(***************************************************************************)
\* Reader::read_varint on the bytes after the first byte of the buffer.
FieldNumberVarint == read_varint(Reader_new(Tail(reader.buffer)))

\* C28 (as claimed): on bytes that follow a valid extended marker byte,
\* read_tag returns the field number n only if Reader::read_varint on those
\* bytes returns n, and fails when read_varint fails with VarintOverflow: a
\* five-byte field-number varint whose fifth byte has one of bits 4..6 set is
\* rejected.
C28_ExtendedTagAsReadVarint ==
    (/\ last.op = "read_tag"
     /\ Len(reader.buffer) >= 1
     /\ reader.buffer[1] % 2 = TAG_EXTENDED_BIT
     /\ from_u8((reader.buffer[1] \div 2) % 8).some) =>
        /\ last.res.ok =>
              /\ FieldNumberVarint.ok
              /\ FieldNumberVarint.val = last.res.val.field_number
        /\ (~FieldNumberVarint.ok /\ FieldNumberVarint.err = VarintOverflow) => ~last.res.ok
(***************************************************************************)
(* The Reader's cursor: a Reader over a sample buffer and a few calls on   *)
(* it, one after the other, each kept with the position before it and its  *)
(* result.  A call that panics is the last one.                            *)
(***************************************************************************)
MaxCursorOps == 2

\* Tags, an end marker, varints of one, two and five bytes, a string.
CursorBuffers ==
    {<<>>,
     <<16, 0>>,
     <<2, 104, 105, 0>>,
     <<172, 2, 255, 255, 255, 255, 15, 1>>,
     <<1, 128, 1, 0, 0, 0, 0, 0, 0, 0, 0>>}

\* Lengths asked of read_bytes and sub_reader: small ones, and the largest
\* ones of a usize.
CursorLengths ==
    {Usize(0), Usize(1), Usize(2), Usize(3), <<0, 0, 0, 32768>>, WordDec(U64_MAX), U64_MAX}

\* The read_* calls without an argument.
CursorReads ==
    {"byte", "bool", "varint", "varint64", "svarint", "svarint64", "fixed32", "fixed64",
     "string", "length_prefixed_bytes"}

\* reader.read_<kind>()
read_call(kind, r) ==
    CASE kind = "byte" -> read_byte(r)
      [] kind = "bool" -> read_bool(r)
      [] OTHER -> read_prim(kind, r)

Step(call, arg, r, res) ==
    [call |-> call, arg |-> arg, pos_before |-> r.pos, res |-> res]

\* The call is made and kept; the reader is where the call left it.
Called(step) ==
    /\ last' = [last EXCEPT !.steps = Append(@, step)]
    /\ reader' = At(reader, step.res.pos)
    /\ UNCHANGED <<registry_vars, writer>>

CanCallReader ==
    /\ last.op = "cursor"
    /\ Len(last.steps) < MaxCursorOps
    /\ \A i \in 1..Len(last.steps) : last.steps[i].res.err # Panic

\* Reader::new(data)
CursorNew ==
    /\ last.op = "init"
    /\ \E data \in CursorBuffers : reader' = Reader_new(data)
    /\ last' = [op |-> "cursor", steps |-> <<>>]
    /\ UNCHANGED <<registry_vars, writer>>

CursorRead ==
    /\ CanCallReader
    /\ \E kind \in CursorReads : Called(Step(kind, <<>>, reader, read_call(kind, reader)))

CursorReadTag ==
    /\ CanCallReader
    /\ Called(Step("tag", <<>>, reader, read_tag(reader)))

CursorSkipField ==
    /\ CanCallReader
    /\ \E w \in WireType : Called(Step("skip_field", w, reader, skip_field(reader, w)))

CursorPeekEndMarker ==
    /\ CanCallReader
    /\ Called(Step("peek_end_marker", <<>>, reader, Ok(peek_end_marker(reader), reader.pos)))

CursorReadBytes ==
    /\ CanCallReader
    /\ \E length \in CursorLengths :
          Called(Step("bytes", length, reader, read_bytes(reader, length)))

CursorSubReader ==
    /\ CanCallReader
    /\ \E length \in CursorLengths :
          Called(Step("sub_reader", length, reader, sub_reader(reader, length)))

NextCursor ==
    \/ CursorNew
    \/ CursorRead
    \/ CursorReadTag
    \/ CursorSkipField
    \/ CursorPeekEndMarker
    \/ CursorReadBytes
    \/ CursorSubReader

SpecCursor == Init /\ [][NextCursor]_vars

(***************************************************************************)
(* Claims about the Reader's cursor (checked under SpecCursor).            *)
(***************************************************************************)
\* The number of bytes of the varint that starts after position p.
VarintLenAt(p) ==
    CHOOSE k \in 1..MAX_VARINT_BYTES :
        /\ reader.buffer[p + k] < 128
        /\ \A i \in 1..(k - 1) : reader.buffer[p + i] >= 128

\* The number of bytes of the item that the successful step s decoded.
ItemLen(s) ==
    CASE s.call \in {"byte", "bool"} -> 1
      [] s.call \in {"varint", "varint64", "svarint", "svarint64"} -> VarintLenAt(s.pos_before)
      [] s.call = "fixed32" -> 4
      [] s.call = "fixed64" -> 8
      [] s.call \in {"string", "length_prefixed_bytes"} ->
            VarintLenAt(s.pos_before) + Len(s.res.val)
      [] s.call \in {"bytes", "sub_reader"} -> s.arg[1]
      [] s.call = "tag" ->
            IF reader.buffer[s.pos_before + 1] = END_MARKER
                  \/ reader.buffer[s.pos_before + 1] % 2 = 0
            THEN 1
            ELSE 1 + VarintLenAt(s.pos_before + 1)
      [] s.call = "skip_field" ->
            IF s.arg \in {Varint, SVarint} THEN VarintLenAt(s.pos_before)
            ELSE IF s.arg = Fixed64 THEN 8
            ELSE IF s.arg = Fixed32 THEN 4
            ELSE VarintLenAt(s.pos_before)
                     + read_varint(At(reader, s.pos_before)).val[1]

\* C25: after any calls on a Reader over L bytes, failed ones included, the
\* position is in 0..L, remaining() is L - position (not below 0) and
\* has_more() is position < L; a read_* or skip_field that succeeds moves the
\* position forward by the number of bytes of the item it decoded, no call
\* moves it backwards, and peek_end_marker leaves it where it is.
C25_ReaderCursorInBounds ==
    last.op = "cursor" =>
        /\ reader.pos \in 0..Len(reader.buffer)
        /\ remaining(reader) = Len(reader.buffer) - reader.pos
        /\ remaining(reader) >= 0
        /\ has_more(reader) <=> reader.pos < Len(reader.buffer)
        /\ \A i \in 1..Len(last.steps) :
              LET s == last.steps[i]
              IN  /\ s.res.pos >= s.pos_before
                  /\ s.res.pos <= Len(reader.buffer)
                  /\ s.call = "peek_end_marker" => s.res.pos = s.pos_before
                  /\ (s.res.ok /\ s.call # "peek_end_marker") =>
                        s.res.pos = s.pos_before + ItemLen(s)
                  /\ i < Len(last.steps) => last.steps[i + 1].pos_before = s.res.pos

\* test_peek_end_marker: over 10 00, read_tag returned field 1 and left the
\* reader at the end marker, which peek_end_marker saw without moving.
C25_Witness ==
    /\ last.op = "cursor"
    /\ reader.buffer = <<16, 0>>
    /\ Len(last.steps) = 2
    /\ last.steps[1].call = "tag"
    /\ last.steps[1].res.ok
    /\ last.steps[2].call = "peek_end_marker"
    /\ last.steps[2].res.val
    /\ reader.pos = 1

\* C26 (as claimed): sub_reader(length), for every usize length and every
\* position: with length <= remaining() it returns a reader over exactly the
\* next length bytes, at position 0, and moves the parent forward by length;
\* with length > remaining() it fails with BufferUnderflow(needed = length,
\* available = remaining()), leaves the parent where it was, and does not panic.
C26_SubReaderContract ==
    last.op = "cursor" =>
        \A i \in 1..Len(last.steps) :
            LET s == last.steps[i]
                rem == Len(reader.buffer) - s.pos_before
            IN  s.call = "sub_reader" =>
                   IF ~WordGt(s.arg, Usize(rem))
                   THEN /\ s.res.ok
                        /\ s.res.val = Reader_new(SubSeq(reader.buffer, s.pos_before + 1,
                                                         s.pos_before + s.arg[1]))
                        /\ remaining(s.res.val) = s.arg[1]
                        /\ s.res.pos = s.pos_before + s.arg[1]
                   ELSE /\ ~s.res.ok
                        /\ s.res.err = BufferUnderflow(s.arg, rem)
                        /\ s.res.pos = s.pos_before
(***************************************************************************)
(* The Registry behind its RwLock, statement by statement.  A thread's     *)
(* record in rog says where its call stands; who holds the lock follows    *)
(* from the records.  A registration is three statements under the write   *)
(* guard, clear is three, and a lookup reads the indexes under the read    *)
(* guard.  last.committed is the RegistryInner as the last write guard     *)
(* left it.  A call on a poisoned lock panics at unwrap(): none is made.   *)
(***************************************************************************)
\* The thread is between self.inner.write() and the drop of the guard.
HoldsWrite(t) ==
    rog[t].pc \in {"write_locked", "by_id_inserted", "by_name_inserted",
                   "clear_locked", "by_id_cleared", "by_name_cleared"}

\* Not the program: encode_polymorphic and decode_polymorphic dropping the
\* read guard before they call the registered closure.
HoldsRead_UntilClosure(t) == rog[t].pc \in {"read_locked", "enc_locked", "dec_locked"}

\* The thread is between self.inner.read() and the drop of the guard: in
\* encode_polymorphic and decode_polymorphic the guard lives to the end of
\* the function, the call of the registered closure included.
HoldsRead(t) ==
    rog[t].pc \in {"read_locked", "enc_locked", "enc_closure", "dec_locked", "dec_closure",
                   "blocked"}

\* Not the program: a read lock that is given while a writer holds the lock.
read_available_Always == ~poisoned

\* self.inner.read().unwrap() returns: no thread holds the write guard.
read_available == ~poisoned /\ \A u \in Threads : ~HoldsWrite(u)

\* self.inner.write().unwrap() returns: no thread holds a guard.
write_available == ~poisoned /\ \A u \in Threads : ~HoldsWrite(u) /\ ~HoldsRead(u)

\* What a registered encoder or decoder does: TestMessage's only encodes or
\* decodes; the others call, on the same Registry (reached through a
\* static), the operation they are named after, with name "B".
Closures == {"TestMessage", "register", "register_with_id", "clear", "register_or_get"}
ClosureName == "B"

\* What the threads register: the name "A" with each of the closures, and
\* the name the closures register with TestMessage's codec.
Registrations == {<<"A", ty>> : ty \in Closures} \cup {<<ClosureName, "TestMessage">>}

\* The pinned IDs of register_with_id: the one after the first, the largest.
LockPinIds == {U32Of(FIRST_USER_TYPE_ID + 1), U32_MAX}

\* The bytes given to decode_polymorphic: the type ID 128, and a value of
\* one byte, the end marker.
LockData == <<128, 1, 1, 0>>

Idle == [pc |-> "idle"]

CanStart(t) == last.op = "lock" /\ rog[t].pc = "idle" /\ op_count < MaxOps

\* The guard is dropped with the RegistryInner as it is after the step.
Committed(by) ==
    last' = [last EXCEPT !.committed = [by_id |-> by_id', by_name |-> by_name',
                                        next_type_id |-> next_type_id'],
                         !.by = by]

\* Arc::new(Registry::new()), shared by the threads
RegistryNew ==
    /\ last.op = "init"
    /\ last' = [op |-> "lock", committed |-> Inner, by |-> "new", returned |-> <<>>]
    /\ UNCHANGED <<registry_vars, writer, reader>>

\* register, to the write guard and the read of next_type_id
LockRegister(t) ==
    /\ CanStart(t)
    /\ write_available
    /\ \E r \in Registrations :
          rog' = [rog EXCEPT ![t] = [pc |-> "write_locked", call |-> "register", name |-> r[1],
                                     ty |-> r[2], type_id |-> next_type_id, inside |-> "none"]]
    /\ auto_assigned' = auto_assigned \cup {next_type_id}
    /\ op_count' = op_count + 1
    /\ UNCHANGED <<by_id, by_name, next_type_id, poisoned, rog_returns, writer, reader, last>>

\* register_with_id, to the write guard
LockRegisterWithId(t) ==
    /\ CanStart(t)
    /\ write_available
    /\ \E r \in Registrations, type_id \in LockPinIds :
          rog' = [rog EXCEPT ![t] = [pc |-> "write_locked", call |-> "register_with_id",
                                     name |-> r[1], ty |-> r[2], type_id |-> type_id,
                                     inside |-> "none"]]
    /\ op_count' = op_count + 1
    /\ UNCHANGED <<by_id, by_name, next_type_id, poisoned, auto_assigned, rog_returns,
                   writer, reader, last>>

\* register_or_get, the fast path: the read guard, the look, the drop.
LockRegisterOrGetFast(t) ==
    /\ CanStart(t)
    /\ read_available
    /\ \E r \in Registrations :
          IF r[1] \in DOMAIN by_name
          THEN /\ rog_returns' = rog_returns \cup {<<r[1], by_name[r[1]]>>}
               /\ rog' = rog
          ELSE /\ rog' = [rog EXCEPT ![t] = [pc |-> "slow", call |-> "register_or_get",
                                            name |-> r[1], ty |-> r[2], inside |-> "none"]]
               /\ rog_returns' = rog_returns
    /\ op_count' = op_count + 1
    /\ UNCHANGED <<by_id, by_name, next_type_id, poisoned, auto_assigned, writer, reader, last>>

\* register_or_get, the slow path: the write guard and the check again.
LockRegisterOrGetSlow(t) ==
    /\ rog[t].pc = "slow"
    /\ write_available
    /\ IF rog[t].name \in DOMAIN by_name
       THEN /\ rog_returns' = rog_returns \cup {<<rog[t].name, by_name[rog[t].name]>>}
            /\ rog' = [rog EXCEPT ![t] = Idle]
            /\ auto_assigned' = auto_assigned
       ELSE /\ rog' = [rog EXCEPT ![t] = [@ EXCEPT !.pc = "write_locked"]
                                            @@ [type_id |-> next_type_id]]
            /\ auto_assigned' = auto_assigned \cup {next_type_id}
            /\ rog_returns' = rog_returns
    /\ UNCHANGED <<by_id, by_name, next_type_id, poisoned, op_count, writer, reader, last>>

\* register_with_id_inner: inner.by_id.insert(type_id, registration)
InsertById(t) ==
    /\ rog[t].pc = "write_locked"
    /\ by_id' = register_with_id_inner(Inner, rog[t].name, rog[t].type_id, rog[t].ty, FALSE).by_id
    /\ rog' = [rog EXCEPT ![t].pc = "by_id_inserted"]
    /\ UNCHANGED <<by_name, next_type_id, poisoned, op_count, auto_assigned, rog_returns,
                   writer, reader, last>>

\* register_with_id_inner: inner.by_name.insert(name, type_id)
InsertByName(t) ==
    /\ rog[t].pc = "by_id_inserted"
    /\ by_name' = register_with_id_inner(Inner, rog[t].name, rog[t].type_id, rog[t].ty, FALSE).by_name
    /\ rog' = [rog EXCEPT ![t].pc = "by_name_inserted"]
    /\ UNCHANGED <<by_id, next_type_id, poisoned, op_count, auto_assigned, rog_returns,
                   writer, reader, last>>

\* register_with_id_inner: the advance of next_type_id, then the return and
\* the drop of the write guard; a panic at `type_id + 1` poisons the lock.
AdvanceNextTypeId(t) ==
    /\ rog[t].pc = "by_name_inserted"
    /\ \E overflow_checks \in BOOLEAN :
          LET out == register_with_id_inner(Inner, rog[t].name, rog[t].type_id, rog[t].ty,
                                            overflow_checks)
          IN  /\ next_type_id' = out.next_type_id
              /\ poisoned' = out.panicked
              /\ rog' = [rog EXCEPT ![t] = IF out.panicked THEN [pc |-> "panicked"] ELSE Idle]
              /\ rog_returns' = IF rog[t].call = "register_or_get" /\ ~out.panicked
                                THEN rog_returns \cup {<<rog[t].name, rog[t].type_id>>}
                                ELSE rog_returns
              /\ UNCHANGED <<by_id, by_name>>
              /\ IF out.panicked THEN last' = last ELSE Committed(rog[t].call)
    /\ UNCHANGED <<op_count, auto_assigned, writer, reader>>

\* Registry::clear, all of it
clear(inner) == [by_id |-> <<>>, by_name |-> <<>>, next_type_id |-> U32Of(FIRST_USER_TYPE_ID)]

\* clear, to the write guard
LockClear(t) ==
    /\ CanStart(t)
    /\ write_available
    /\ rog' = [rog EXCEPT ![t] = [pc |-> "clear_locked", call |-> "clear", inside |-> "none"]]
    /\ op_count' = op_count + 1
    /\ UNCHANGED <<by_id, by_name, next_type_id, poisoned, auto_assigned, rog_returns,
                   writer, reader, last>>

\* clear: inner.by_id.clear()
ClearById(t) ==
    /\ rog[t].pc = "clear_locked"
    /\ by_id' = clear(Inner).by_id
    /\ rog' = [rog EXCEPT ![t].pc = "by_id_cleared"]
    /\ UNCHANGED <<by_name, next_type_id, poisoned, op_count, auto_assigned, rog_returns,
                   writer, reader, last>>

\* clear: inner.by_name.clear()
ClearByName(t) ==
    /\ rog[t].pc = "by_id_cleared"
    /\ by_name' = clear(Inner).by_name
    /\ rog' = [rog EXCEPT ![t].pc = "by_name_cleared"]
    /\ UNCHANGED <<by_id, next_type_id, poisoned, op_count, auto_assigned, rog_returns,
                   writer, reader, last>>

\* clear: inner.next_type_id = 128, then the drop of the write guard
ResetNextTypeId(t) ==
    /\ rog[t].pc = "by_name_cleared"
    /\ next_type_id' = clear(Inner).next_type_id
    /\ rog' = [rog EXCEPT ![t] = Idle]
    /\ UNCHANGED <<by_id, by_name>>
    /\ Committed("clear")
    /\ UNCHANGED <<poisoned, op_count, auto_assigned, rog_returns, writer, reader>>

\* get_type_id, get_type_name, is_registered, is_registered_id: the read guard
Lookups == {"get_type_id", "get_type_name", "is_registered", "is_registered_id"}

is_registered(inner, name) == name \in DOMAIN inner.by_name
is_registered_id(inner, type_id) == type_id \in DOMAIN inner.by_id

lookup(inner, call, arg) ==
    CASE call = "get_type_id" -> get_type_id(inner, arg)
      [] call = "get_type_name" -> get_type_name(inner, arg)
      [] call = "is_registered" -> is_registered(inner, arg)
      [] call = "is_registered_id" -> is_registered_id(inner, arg)

LookupLock(t) ==
    /\ CanStart(t)
    /\ read_available
    /\ \E call \in Lookups :
          \E arg \in IF call \in {"get_type_id", "is_registered"} THEN {"A"}
                     ELSE {U32Of(FIRST_USER_TYPE_ID)} :
              rog' = [rog EXCEPT ![t] = [pc |-> "read_locked", call |-> call, arg |-> arg]]
    /\ op_count' = op_count + 1
    /\ UNCHANGED <<by_id, by_name, next_type_id, poisoned, auto_assigned, rog_returns,
                   writer, reader, last>>

\* the look into the index, the return and the drop of the read guard
LookupReturn(t) ==
    /\ rog[t].pc = "read_locked"
    /\ last' = [last EXCEPT !.returned = <<rog[t].call, lookup(Inner, rog[t].call, rog[t].arg)>>]
    /\ rog' = [rog EXCEPT ![t] = Idle]
    /\ UNCHANGED <<by_id, by_name, next_type_id, poisoned, op_count, auto_assigned,
                   rog_returns, writer, reader>>

\* What the closure of the registration does when it is called here: a
\* register_or_get of a registered name returns from its fast path.
closure_call(inner, reg) ==
    IF reg.ty = "register_or_get" /\ ClosureName \in DOMAIN inner.by_name THEN "register_or_get hit"
    ELSE reg.ty

\* encode_polymorphic, to the read guard
EncodeLock(t) ==
    /\ CanStart(t)
    /\ read_available
    /\ \E name \in Names, matches \in BOOLEAN :
          rog' = [rog EXCEPT ![t] = [pc |-> "enc_locked", call |-> "encode_polymorphic",
                                     name |-> name, matches |-> matches]]
    /\ op_count' = op_count + 1
    /\ UNCHANGED <<by_id, by_name, next_type_id, poisoned, auto_assigned, rog_returns,
                   writer, reader, last>>

\* encode_polymorphic: by_name.get(name)?, by_id.get(&type_id).unwrap(),
\* write_tag, write_varint(type_id), and the downcast in the AnyEncoder; the
\* encoder is called next unless the value is of another type.
EncodeLookup(t) ==
    /\ rog[t].pc = "enc_locked"
    /\ IF rog[t].name \notin DOMAIN by_name
       THEN /\ rog' = [rog EXCEPT ![t] = Idle]
            /\ last' = [last EXCEPT !.returned = <<"encode_polymorphic",
                                                   Err(TypeNotRegistered(rog[t].name), 0)>>]
       ELSE IF by_name[rog[t].name] \notin DOMAIN by_id
       THEN /\ rog' = [rog EXCEPT ![t] = [pc |-> "panicked", at |-> "by_id.get.unwrap"]]
            /\ last' = last
       ELSE IF ~rog[t].matches
       THEN /\ rog' = [rog EXCEPT ![t] = Idle]
            /\ last' = [last EXCEPT !.returned = <<"encode_polymorphic",
                            Err(Custom(<<"Type mismatch for ", rog[t].name>>), 0)>>]
       ELSE /\ rog' = [rog EXCEPT ![t] = [@ EXCEPT !.pc = "enc_closure"]
                          @@ [reg |-> by_id[by_name[rog[t].name]],
                              closure |-> closure_call(Inner, by_id[by_name[rog[t].name]])]]
            /\ last' = last
    /\ UNCHANGED <<by_id, by_name, next_type_id, poisoned, op_count, auto_assigned,
                   rog_returns, writer, reader>>

\* decode_polymorphic: read_varint, then to the read guard
DecodeLock(t) ==
    /\ CanStart(t)
    /\ read_available
    /\ rog' = [rog EXCEPT ![t] = [pc |-> "dec_locked", call |-> "decode_polymorphic",
                                  type_id |-> read_varint(Reader_new(LockData)).val]]
    /\ op_count' = op_count + 1
    /\ UNCHANGED <<by_id, by_name, next_type_id, poisoned, auto_assigned, rog_returns,
                   writer, reader, last>>

\* decode_polymorphic: by_id.get(&type_id)?, the length and the sub-reader;
\* the decoder is called next.
DecodeLookup(t) ==
    /\ rog[t].pc = "dec_locked"
    /\ IF rog[t].type_id \notin DOMAIN by_id
       THEN /\ rog' = [rog EXCEPT ![t] = Idle]
            /\ last' = [last EXCEPT !.returned = <<"decode_polymorphic",
                                                   Err(UnknownTypeId(rog[t].type_id), 0)>>]
       ELSE /\ rog' = [rog EXCEPT ![t] = [@ EXCEPT !.pc = "dec_closure"]
                          @@ [reg |-> by_id[rog[t].type_id],
                              closure |-> closure_call(Inner, by_id[rog[t].type_id])]]
            /\ last' = last
    /\ UNCHANGED <<by_id, by_name, next_type_id, poisoned, op_count, auto_assigned,
                   rog_returns, writer, reader>>

\* The closure returns, and the polymorphic call after it, dropping the read
\* guard: TestMessage's codec has encoded or decoded; a closure back from
\* the fast path of register_or_get has written or read nothing.  The bytes
\* written and the value read stay with the caller and are not kept here.
ClosureReturns(t) ==
    /\ rog[t].pc \in {"enc_closure", "dec_closure"}
    /\ rog[t].closure \in {"TestMessage", "register_or_get hit"}
    /\ last' = [last EXCEPT !.returned = <<rog[t].call, Ok(<<>>, 0)>>]
    /\ rog' = [rog EXCEPT ![t] = Idle]
    /\ UNCHANGED <<by_id, by_name, next_type_id, poisoned, op_count, auto_assigned,
                   rog_returns, writer, reader>>

\* The closure calls self.inner.write() of the Registry.  On a thread that
\* holds the read guard the call "might panic" (std::sync::RwLock): it blocks
\* for ever, the guard held, or it panics and the unwinding drops the guard
\* (a read guard does not poison).  Otherwise it is any write().
ClosureLocksWrite(t) ==
    /\ rog[t].pc \in {"enc_closure", "dec_closure"}
    /\ rog[t].closure \in {"register", "register_with_id", "clear", "register_or_get"}
    /\ IF HoldsRead(t)
       THEN \E outcome \in {"blocked", "panicked"} :
               rog' = [rog EXCEPT ![t] = [@ EXCEPT !.pc = outcome]]
       ELSE /\ write_available
            /\ rog' = [rog EXCEPT ![t] =
                          IF rog[t].closure = "clear"
                          THEN [pc |-> "clear_locked", call |-> "clear", inside |-> rog[t].call]
                          ELSE [pc |-> "write_locked", call |-> rog[t].closure,
                                name |-> ClosureName, ty |-> "TestMessage",
                                type_id |-> next_type_id, inside |-> rog[t].call]]
    /\ UNCHANGED <<by_id, by_name, next_type_id, poisoned, op_count, auto_assigned,
                   rog_returns, writer, reader, last>>

\* The steps of thread t inside a call.
ThreadStep(t) ==
    \/ LockRegisterOrGetSlow(t)
    \/ InsertById(t)
    \/ InsertByName(t)
    \/ AdvanceNextTypeId(t)
    \/ ClearById(t)
    \/ ClearByName(t)
    \/ ResetNextTypeId(t)
    \/ LookupReturn(t)
    \/ EncodeLookup(t)
    \/ DecodeLookup(t)
    \/ ClosureReturns(t)
    \/ ClosureLocksWrite(t)

\* The calls thread t makes.
ThreadCall(t) ==
    \/ LockRegister(t)
    \/ LockRegisterWithId(t)
    \/ LockRegisterOrGetFast(t)
    \/ LockClear(t)
    \/ LookupLock(t)
    \/ EncodeLock(t)
    \/ DecodeLock(t)

NextLock ==
    \/ RegistryNew
    \/ \E t \in Threads : ThreadCall(t)
    \/ \E t \in Threads : ThreadStep(t)

SpecLock == Init /\ [][NextLock]_vars

\* A thread inside a call is scheduled again.
SpecLockFair == SpecLock /\ \A t \in Threads : WF_vars(ThreadStep(t))
(***************************************************************************)
(* Claims about the Registry behind its lock (checked under SpecLock, and  *)
(* under SpecLockFair where a call has to end).                            *)
(***************************************************************************)
\* C23: in every interleaving of threads that register or clear with threads
\* that look up, encode or decode, a thread that holds the read guard sees
\* the RegistryInner as the last write guard left it: of each registration
\* all of the by-ID entry, the by-name entry and the counter advance, or
\* none; no thread holds the write guard then, every ID of the by-name index
\* is a key of the by-ID index, and the name of every by-ID entry is a key
\* of the by-name index.
C23_RegistrationsObservedAtomically ==
    last.op = "lock" =>
        \A t \in Threads :
            HoldsRead(t) =>
                /\ Inner = last.committed
                /\ \A u \in Threads : ~HoldsWrite(u)
                /\ \A n \in DOMAIN by_name : by_name[n] \in DOMAIN by_id
                /\ \A i \in DOMAIN by_id : by_id[i].name \in DOMAIN by_name

\* A lookup holds the read guard on a registry with a registration in it.
C23_Witness ==
    /\ last.op = "lock"
    /\ \E t \in Threads : rog[t].pc = "read_locked"
    /\ last.by \in {"register", "register_with_id", "register_or_get"}
    /\ by_name # <<>>

\* The closure about to be called calls a write-locking operation.
WriteLockingClosure(t) ==
    /\ rog[t].pc \in {"enc_closure", "dec_closure"}
    /\ rog[t].closure \in {"register", "register_with_id", "clear", "register_or_get"}

\* The closure about to be called does not touch the registry.
PureClosure(t) ==
    /\ rog[t].pc \in {"enc_closure", "dec_closure"}
    /\ rog[t].closure = "TestMessage"

\* C24: the encoder of encode_polymorphic and the decoder of
\* decode_polymorphic are called with the read guard held: no thread holds
\* the write guard while a closure runs.  A closure that calls register,
\* register_with_id, clear, or register_or_get with a name not yet
\* registered, on the same registry, never gets the write guard, and its
\* thread never returns from the polymorphic call: it stays blocked, or
\* panicked, for ever.  A closure that does not touch the registry is
\* followed by the return of the call and the drop of the guard.
C24_ClosuresRunUnderReadLock ==
    /\ [](\A t \in Threads :
             /\ HoldsWrite(t) => rog[t].inside = "none"
             /\ rog[t].pc \in {"enc_closure", "dec_closure", "blocked"} =>
                   \A u \in Threads : ~HoldsWrite(u))
    /\ [][\A t \in Threads :
             /\ WriteLockingClosure(t) => rog'[t].pc \in {rog[t].pc, "blocked", "panicked"}
             /\ rog[t].pc \in {"blocked", "panicked"} => rog'[t] = rog[t]]_vars
    /\ \A t \in Threads : PureClosure(t) ~> (rog[t].pc = "idle")

\* A thread is blocked inside encode_polymorphic, the read guard held,
\* in an encoder that called register.
C24_Witness ==
    /\ last.op = "lock"
    /\ \E t \in Threads :
          /\ rog[t].pc = "blocked"
          /\ rog[t].call = "encode_polymorphic"
          /\ rog[t].closure = "register"

\* Registry::new()
FreshInner == [by_id |-> <<>>, by_name |-> <<>>, next_type_id |-> U32Of(FIRST_USER_TYPE_ID)]

\* C30: in every state of the registry between calls of register,
\* register_with_id, register_or_get and clear, every ID that is a value of
\* the by-name index is a key of the by-ID index; the by_id.get(..).unwrap()
\* of encode_polymorphic never panics; and clear leaves both indexes empty
\* and next_type_id at 128, the state of a new registry.
C30_ByNameIdsAreById ==
    last.op = "lock" =>
        /\ (\A u \in Threads : ~HoldsWrite(u)) =>
              \A n \in DOMAIN by_name : by_name[n] \in DOMAIN by_id
        /\ \A t \in Threads : ~(rog[t].pc = "panicked" /\ "at" \in DOMAIN rog[t])
        /\ last.by = "clear" => last.committed = FreshInner

\* clear has returned on a registry that had a registration.
C30_Witness ==
    /\ last.op = "lock"
    /\ last.by = "clear"
    /\ auto_assigned # {}
    /\ Inner = FreshInner
    /\ \A t \in Threads : rog[t].pc = "idle"

====
